---- MODULE Spec2Model ----
(***************************************************************************)
(* Model of applications/popart/bert/bert_data/pretraining_dataset.py:     *)
(* the BinaryDataLoader (streaming loader), its length computation, its    *)
(* iteration protocol (__iter__ / __next__), and the BertDataTransform     *)
(* that wraps a loader.                                                    *)
(*                                                                         *)
(* A file on disk is a byte size (fsize) and the whole elements it holds   *)
(* (fdata).  A numpy 2-d array is a sequence of rows, a row a sequence of  *)
(* integers.  Python's 0-based indices are kept; sequences are 1-based, so *)
(* element i of a Python list is seq[i + 1].                               *)
(***************************************************************************)
EXTENDS Integers, Sequences, FiniteSets, TLC

\* ---------------------------------------------------------------- bounds
MaxRecords == 4
MaxBatch == 3
MaxDup == 2

\* np.int32().itemsize: the default dtype of BinaryDataLoader.__init__
itemsize == 4

\* the number of files the glob patterns expand to
FileCounts == 0..2
\* the record layouts (sample_sizes) the loader is constructed with
Layouts == {<<1>>, <<2, 1>>}
\* the bytes that follow the last whole record of a malformed file
StrayBytes == 2
\* start_data_at_epoch
StartEpochs == {0, 5}

VARIABLES
    files,                  \* self.files: list of file names
    fsize,                  \* os.path.getsize of every file
    fdata,                  \* the whole elements every file holds
    sample_sizes,           \* self.sample_sizes
    batch_size,             \* self.batch_size
    duplication_factor,     \* self.duplication_factor
    start_data_at_epoch,    \* constructor argument
    shuffle,                \* self.shuffle
    file_index,             \* self.file_index
    data_index,             \* self.data_index
    file_duplication_index, \* self.file_duplication_index
    len,                    \* self.len: <<>> is None, <<v>> is v
    data,                   \* self.data
    data_set,               \* whether self.data has been assigned
    loads,                  \* <<file name, copy index>> of every load_file of this iteration
    op,                     \* the operation the driving loop called last
    outcome,                \* how it ended: "ok" or the exception raised
    ret,                    \* what it returned (<<>>: nothing)
    hist,                   \* the batches returned since the last __iter__
    iters,                  \* number of __iter__ calls so far, modulo 2 * duplication_factor
    started,                \* __iter__ has been called
    exhausted,              \* this iteration has raised StopIteration
    full,                   \* every earlier iteration was driven to StopIteration
    vocab_length,           \* BertDataTransform.vocab_length
    titems,                 \* what BertDataTransform.__next__ returned last
    epochs_to_cache,        \* CachedDataLoader.epochs_to_cache
    data_cache,             \* CachedDataLoader.data_cache: list of buffers
    cache_index,            \* CachedDataLoader.cache_index
    generated_ranges,       \* GeneratedDataLoader.generated_ranges: <<>> is None, <<v>> is v
    args,                   \* the args get_bert_dataset is called with
    dl                      \* the class of the loader: type(dl).__name__

vars == <<files, fsize, fdata, sample_sizes, batch_size, duplication_factor,
          start_data_at_epoch, shuffle, file_index, data_index,
          file_duplication_index, len, data, data_set, loads, op, outcome, ret,
          hist, iters, started, exhausted, full, vocab_length, titems,
          epochs_to_cache, data_cache, cache_index, generated_ranges, args, dl>>

config == <<fsize, fdata, sample_sizes, batch_size, duplication_factor,
            start_data_at_epoch, shuffle, vocab_length>>

\* the fields the subclasses of BinaryDataLoader add, and the assembler's
variant == <<epochs_to_cache, data_cache, cache_index, generated_ranges, args,
             dl>>

\* ------------------------------------------------------------- helpers
RECURSIVE SumSeq(_)
SumSeq(s) == IF s = <<>> THEN 0 ELSE s[1] + SumSeq(Tail(s))

\* reduce(lambda a, s: a + s, sample_sizes, 0)
sample_size == SumSeq(sample_sizes)

\* a shuffle as it would be if every place drew its element independently
Shuffled_sampled(s) ==
    {[i \in 1..Len(s) |-> s[p[i]]] : p \in [1..Len(s) -> 1..Len(s)]}

\* every reordering of the rows of a sequence (rng.shuffle)
Shuffled(s) ==
    {[i \in 1..Len(s) |-> s[p[i]]] : p \in Permutations(1..Len(s))}

\* the value stored at element position p (0-based) of file f
Content(f, p) == f * 100 + p

\* ----------------------------------------------------- samples_in_file
bytes_per_sample == sample_size * itemsize

\* the check of samples_in_file as it would be if it also required a whole
\* number of records per copy
samples_in_file_raises_strict(f) ==
    (fsize[f] % (bytes_per_sample * duplication_factor)) # 0

\* the check of samples_in_file as it would be if the element size were left
\* out of the record size
samples_in_file_raises_elems(f) == (fsize[f] % sample_size) # 0

\* samples_in_file raises RuntimeError
samples_in_file_raises(f) == (fsize[f] % bytes_per_sample) # 0

\* samples_in_file as it would be without the division by duplication_factor
samples_in_file_nodup(f) == fsize[f] \div bytes_per_sample

\* samples_in_file as it would be if the division by duplication_factor
\* rounded up
samples_in_file_ceil(f) ==
    ((fsize[f] \div bytes_per_sample) + duplication_factor - 1)
        \div duplication_factor

\* samples_in_file's return value when it does not raise
samples_in_file(f) == (fsize[f] \div bytes_per_sample) \div duplication_factor

\* ------------------------------------------------------- loader state
\* The fields of the loader that iteration mutates, as one record, so that
\* the nested calls of get_data / load_data / load_file can be composed.
LoaderState ==
    [files |-> files, file_index |-> file_index, data_index |-> data_index,
     dup |-> file_duplication_index, data |-> data, data_set |-> data_set,
     loads |-> loads]

Min(a, b) == IF a < b THEN a ELSE b
Max(a, b) == IF a > b THEN a ELSE b

\* np.fromfile(filename, dtype, count=count, offset=offset_bytes): at most
\* count whole elements, starting offset_bytes into the file; fewer when the
\* file ends first.
fromfile(f, count, offset_bytes) ==
    LET first == offset_bytes \div itemsize
        avail == Max(0, (fsize[f] - offset_bytes) \div itemsize)
        n     == Min(count, avail)
    IN  [k \in 1..n |-> fdata[f][first + k]]

\* new_data.reshape(new_data.size // sample_size, sample_size) raises
\* ValueError when the element count is no multiple of sample_size
reshape_raises(elems) == (Len(elems) % sample_size) # 0

reshape(elems) ==
    [r \in 1..(Len(elems) \div sample_size) |->
        [c \in 1..sample_size |-> elems[(r - 1) * sample_size + c]]]

\* the element count of load_file as it would be if it spanned every copy
\* the file holds
load_file_count_all(s) ==
    (fsize[s.files[s.file_index + 1]] \div bytes_per_sample) * sample_size

\* the elements load_file reads for the file at position s.file_index
load_file_count(s) == samples_in_file(s.files[s.file_index + 1]) * sample_size

\* the offset as it would be if counted in elements instead of bytes
load_file_offset_elements(s) ==
    load_file_count(s) * s.dup[s.file_index + 1]

\* offset_bytes of load_file
load_file_offset(s) ==
    load_file_count(s) * s.dup[s.file_index + 1] * itemsize

load_file_read(s) ==
    fromfile(s.files[s.file_index + 1], load_file_count(s),
             load_file_offset(s))

\* load_file as it would be if the duplication cursor were not advanced
load_file_stuck(s) ==
    LET filename == s.files[s.file_index + 1]
    IN  IF samples_in_file_raises(filename)
        THEN [res |-> "RuntimeError", s |-> s, rows |-> <<>>]
        ELSE [res |-> "ok",
              s |-> [s EXCEPT
                       !.file_index = s.file_index + 1,
                       !.data_index = 0,
                       !.loads = Append(s.loads,
                                   <<filename, s.dup[s.file_index + 1]>>)],
              rows |-> reshape(load_file_read(s))]

\* load_file as it would be if the cursor were advanced without the modulo
load_file_unwrapped(s) ==
    LET filename == s.files[s.file_index + 1]
    IN  IF samples_in_file_raises(filename)
        THEN [res |-> "RuntimeError", s |-> s, rows |-> <<>>]
        ELSE IF reshape_raises(load_file_read(s))
        THEN [res |-> "ValueError", s |-> s, rows |-> <<>>]
        ELSE [res |-> "ok",
              s |-> [s EXCEPT
                       !.dup[s.file_index + 1] = s.dup[s.file_index + 1] + 1,
                       !.file_index = s.file_index + 1,
                       !.data_index = 0,
                       !.loads = Append(s.loads,
                                   <<filename, s.dup[s.file_index + 1]>>)],
              rows |-> reshape(load_file_read(s))]

\* load_file as it would be if file_index were advanced before the file is
\* looked at
load_file_counting(s) ==
    LET filename == s.files[s.file_index + 1]
    IN  IF samples_in_file_raises(filename)
        THEN [res |-> "RuntimeError",
              s |-> [s EXCEPT !.file_index = s.file_index + 1],
              rows |-> <<>>]
        ELSE IF reshape_raises(load_file_read(s))
        THEN [res |-> "ValueError", s |-> s, rows |-> <<>>]
        ELSE [res |-> "ok",
              s |-> [s EXCEPT
                       !.dup[s.file_index + 1] =
                           (s.dup[s.file_index + 1] + 1) % duplication_factor,
                       !.file_index = s.file_index + 1,
                       !.data_index = 0,
                       !.loads = Append(s.loads,
                                   <<filename, s.dup[s.file_index + 1]>>)],
              rows |-> reshape(load_file_read(s))]

\* load_file: [res, s, rows].  res is "ok" or the exception raised; s the
\* loader state it leaves; rows the array it returns.
load_file(s) ==
    LET filename == s.files[s.file_index + 1]
    IN  IF samples_in_file_raises(filename)
        THEN [res |-> "RuntimeError", s |-> s, rows |-> <<>>]
        ELSE IF reshape_raises(load_file_read(s))
        THEN [res |-> "ValueError", s |-> s, rows |-> <<>>]
        ELSE [res |-> "ok",
              s |-> [s EXCEPT
                       !.dup[s.file_index + 1] =
                           (s.dup[s.file_index + 1] + 1) % duplication_factor,
                       !.file_index = s.file_index + 1,
                       !.data_index = 0,
                       !.loads = Append(s.loads,
                                   <<filename, s.dup[s.file_index + 1]>>)],
              rows |-> reshape(load_file_read(s))]

\* load_data as it would be if the rows were shuffled whatever the flag says
load_data_shuffling(s) ==
    IF s.file_index >= Len(s.files)
    THEN {[res |-> "StopIteration", s |-> s]}
    ELSE LET r == load_file(s)
         IN  IF r.res # "ok"
             THEN {[res |-> r.res, s |-> r.s]}
             ELSE {[res |-> "ok",
                    s |-> [r.s EXCEPT !.data = d, !.data_set = TRUE]] :
                   d \in Shuffled(r.rows)}

\* BinaryDataLoader.load_data: the set of outcomes [res, s] (the row shuffle
\* may leave the rows in any order).
load_data(s) ==
    IF s.file_index >= Len(s.files)
    THEN {[res |-> "StopIteration", s |-> s]}
    ELSE LET r == load_file(s)
         IN  IF r.res # "ok"
             THEN {[res |-> r.res, s |-> r.s]}
             ELSE {[res |-> "ok",
                    s |-> [r.s EXCEPT !.data = d, !.data_set = TRUE]] :
                   d \in IF shuffle THEN Shuffled(r.rows) ELSE {r.rows}}

RECURSIVE get_data(_, _)
\* get_data as it would be if the last, short read were returned instead of
\* being dropped
get_data_short(s, n) ==
    IF s.data_index + n > Len(s.data)
    THEN LET prev_data == SubSeq(s.data, s.data_index + 1, Len(s.data))
             still_required == n - Len(prev_data)
         IN  UNION {
               IF l.res = "StopIteration" /\ prev_data # <<>>
               THEN {[res |-> "ok",
                      s |-> [l.s EXCEPT !.data_index = Len(s.data)],
                      rows |-> prev_data]}
               ELSE IF l.res # "ok"
               THEN {[res |-> l.res, s |-> l.s, rows |-> <<>>]}
               ELSE {IF g.res # "ok"
                     THEN g
                     ELSE [g EXCEPT !.rows = prev_data \o g.rows] :
                     g \in get_data(l.s, still_required)} :
               l \in load_data(s)}
    ELSE {[res |-> "ok",
           s |-> [s EXCEPT !.data_index = s.data_index + n],
           rows |-> SubSeq(s.data, s.data_index + 1, s.data_index + n)]}

\* get_data as it would be if data_index were not advanced past the slice
get_data_noadvance(s, n) ==
    IF s.data_index + n > Len(s.data)
    THEN LET prev_data == SubSeq(s.data, s.data_index + 1, Len(s.data))
             still_required == n - Len(prev_data)
         IN  UNION {
               IF l.res # "ok"
               THEN {[res |-> l.res, s |-> l.s, rows |-> <<>>]}
               ELSE {IF g.res # "ok"
                     THEN g
                     ELSE [g EXCEPT !.rows = prev_data \o g.rows] :
                     g \in get_data(l.s, still_required)} :
               l \in load_data(s)}
    ELSE {[res |-> "ok",
           s |-> s,
           rows |-> SubSeq(s.data, s.data_index + 1, s.data_index + n)]}

RECURSIVE get_data_swapped(_, _)
\* get_data as it would be if the rows of the new buffer were put before
\* the rows left of the old one
get_data_swapped(s, n) ==
    IF s.data_index + n > Len(s.data)
    THEN LET prev_data == SubSeq(s.data, s.data_index + 1, Len(s.data))
             still_required == n - Len(prev_data)
         IN  UNION {
               IF l.res # "ok"
               THEN {[res |-> l.res, s |-> l.s, rows |-> <<>>]}
               ELSE {IF g.res # "ok"
                     THEN g
                     ELSE [g EXCEPT !.rows = g.rows \o prev_data] :
                     g \in get_data_swapped(l.s, still_required)} :
               l \in load_data(s)}
    ELSE {[res |-> "ok",
           s |-> [s EXCEPT !.data_index = s.data_index + n],
           rows |-> SubSeq(s.data, s.data_index + 1, s.data_index + n)]}

RECURSIVE get_data_eager(_, _)
\* get_data as it would be if the next file were loaded as soon as the last
\* row of the buffer is handed out
get_data_eager(s, n) ==
    IF s.data_index + n > Len(s.data)
    THEN LET prev_data == SubSeq(s.data, s.data_index + 1, Len(s.data))
             still_required == n - Len(prev_data)
         IN  UNION {
               IF l.res # "ok"
               THEN {[res |-> l.res, s |-> l.s, rows |-> <<>>]}
               ELSE {IF g.res # "ok"
                     THEN g
                     ELSE [g EXCEPT !.rows = prev_data \o g.rows] :
                     g \in get_data_eager(l.s, still_required)} :
               l \in load_data(s)}
    ELSE IF s.data_index + n = Len(s.data) /\ s.file_index < Len(s.files)
    THEN {[res |-> l.res,
           s |-> l.s,
           rows |-> IF l.res = "ok"
                    THEN SubSeq(s.data, s.data_index + 1, s.data_index + n)
                    ELSE <<>>] : l \in load_data(s)}
    ELSE {[res |-> "ok",
           s |-> [s EXCEPT !.data_index = s.data_index + n],
           rows |-> SubSeq(s.data, s.data_index + 1, s.data_index + n)]}

\* BinaryDataLoader.get_data(batch_size): the set of outcomes [res, s, rows]
get_data(s, n) ==
    IF s.data_index + n > Len(s.data)
    THEN LET prev_data == SubSeq(s.data, s.data_index + 1, Len(s.data))
             still_required == n - Len(prev_data)
         IN  UNION {
               IF l.res # "ok"
               THEN {[res |-> l.res, s |-> l.s, rows |-> <<>>]}
               ELSE {IF g.res # "ok"
                     THEN g
                     ELSE [g EXCEPT !.rows = prev_data \o g.rows] :
                     g \in get_data(l.s, still_required)} :
               l \in load_data(s)}
    ELSE {[res |-> "ok",
           s |-> [s EXCEPT !.data_index = s.data_index + n],
           rows |-> SubSeq(s.data, s.data_index + 1, s.data_index + n)]}

\* the column offset as it would be if total were never advanced
FieldStart_stuck(i) == 0

\* the column offset of field i (1-based): total before the i-th append
FieldStart(i) == SumSeq(SubSeq(sample_sizes, 1, i - 1))

\* BinaryDataLoader.__next__'s split of a batch into one array per field:
\* items[i] = data[:, total:total + size]
split_items(rows) ==
    [i \in 1..Len(sample_sizes) |->
        [r \in 1..Len(rows) |->
            SubSeq(rows[r], FieldStart(i) + 1, FieldStart(i) + sample_sizes[i])]]

\* --------------------------------------------------------------- Init
\* The file set: n files named 1..n; file f holds recs[f] whole records;
\* file bad (if any) is malformed: stray bytes follow its last record.
FileSet(n, recs, bad) ==
    [f \in 1..n |->
        recs[f] * bytes_per_sample + (IF f = bad THEN StrayBytes ELSE 0)]

\* the record counts of n files that hold at most total records together
RecordCounts(n, total) ==
    {recs \in [1..n -> 0..total] : SumSeq(recs) <= total}

\* BinaryDataLoader.__init__ on a file set of at most maxrecs records
Construct(maxrecs) ==
    /\ sample_sizes \in Layouts
    /\ batch_size \in 1..MaxBatch
    /\ duplication_factor \in 1..MaxDup
    /\ start_data_at_epoch \in StartEpochs
    /\ \E n \in FileCounts :
         /\ files = [i \in 1..n |-> i]
         /\ \E recs \in RecordCounts(n, maxrecs), bad \in 0..n :
              fsize = FileSet(n, recs, bad)
         /\ fdata = [f \in 1..n |->
                       [k \in 1..(fsize[f] \div itemsize) |-> Content(f, k - 1)]]
         /\ file_duplication_index =
              [i \in 1..n |-> start_data_at_epoch % duplication_factor]

\* the iteration fields and the driving loop after construction
Constructed ==
    /\ file_index = 0
    /\ data_index = 0
    /\ len = <<>>
    /\ data = <<>>
    /\ data_set = FALSE
    /\ loads = <<>>
    /\ op = "init"
    /\ outcome = "ok"
    /\ ret = <<>>
    /\ hist = <<>>
    /\ iters = 0
    /\ started = FALSE
    /\ exhausted = FALSE
    /\ full = TRUE
    /\ titems = <<>>

\* a BinaryDataLoader, constructed directly: it has none of the subclasses'
\* fields
Streaming ==
    /\ epochs_to_cache = 0
    /\ data_cache = <<>>
    /\ cache_index = 0
    /\ generated_ranges = <<>>
    /\ args = <<>>
    /\ dl = "BinaryDataLoader"

\* The loader after construction, iterated directly.  A shuffling loader is
\* explored on the smaller file sets, as every load then has one successor
\* per row order.
Init ==
    /\ \/ shuffle = FALSE /\ Construct(MaxRecords)
       \/ shuffle = TRUE /\ Construct(MaxRecords - 1)
    /\ vocab_length = 0
    /\ Constructed
    /\ Streaming

\* ------------------------------------------------------------ actions
\* the sample total as it would be if the records of all files were pooled
\* before the division by duplication_factor
total_samples_pooled(fs) ==
    SumSeq([i \in 1..Len(fs) |-> fsize[fs[i]] \div bytes_per_sample])
        \div duplication_factor

\* reduce(lambda a, f: a + self.samples_in_file(f), self.files, 0)
RECURSIVE total_samples(_)
total_samples(fs) ==
    IF fs = <<>> THEN 0 ELSE samples_in_file(fs[1]) + total_samples(Tail(fs))

\* the value __len__ computes when self.len is None
len_value == total_samples(files) \div batch_size

\* BinaryDataLoader.__len__
DoLen ==
    /\ op' = "len"
    /\ IF len = <<>>
       THEN IF \E i \in 1..Len(files) : samples_in_file_raises(files[i])
            THEN /\ outcome' = "RuntimeError"
                 /\ ret' = <<>>
                 /\ len' = len
            ELSE /\ outcome' = "ok"
                 /\ len' = <<len_value>>
                 /\ ret' = len'
       ELSE /\ outcome' = "ok"
            /\ ret' = len
            /\ len' = len
    /\ UNCHANGED <<files, config, file_index, data_index, file_duplication_index,
                   data, data_set, loads, hist, iters, started, exhausted, full,
                   titems, variant>>

\* writes a loader state record back to the variables
Store(s) ==
    /\ files' = s.files
    /\ file_index' = s.file_index
    /\ data_index' = s.data_index
    /\ file_duplication_index' = s.dup
    /\ data' = s.data
    /\ data_set' = s.data_set
    /\ loads' = s.loads

\* the loader state __iter__ would go on from if it did not reset file_index
iter_reset_keep(fs) ==
    [LoaderState EXCEPT !.files = fs, !.data_index = 0, !.loads = <<>>]

\* the loader state after the first three statements of __iter__
iter_reset(fs) ==
    [LoaderState EXCEPT !.files = fs, !.file_index = 0, !.data_index = 0,
                        !.loads = <<>>]

\* BinaryDataLoader.__iter__
DoIter ==
    /\ \E fs \in IF shuffle THEN Shuffled(files) ELSE {files} :
         \E l \in load_data(iter_reset(fs)) :
            /\ Store(l.s)
            /\ outcome' = l.res
            /\ exhausted' = (l.res = "StopIteration")
    /\ op' = "iter"
    /\ ret' = <<>>
    /\ hist' = <<>>
    /\ iters' = (iters + 1) % (2 * duplication_factor)
    /\ started' = TRUE
    /\ full' = (full /\ (~started \/ exhausted))
    /\ UNCHANGED <<config, len, titems, variant>>

\* BinaryDataLoader.__next__, whoever calls it
next_call ==
    /\ op' = "next"
    /\ IF ~data_set
       THEN /\ outcome' = "AttributeError"
            /\ ret' = <<>>
            /\ UNCHANGED <<files, file_index, data_index, file_duplication_index,
                           data, data_set, loads, hist, exhausted>>
       ELSE \E g \in get_data(LoaderState, batch_size) :
               /\ Store(g.s)
               /\ outcome' = g.res
               /\ IF g.res = "ok"
                  THEN /\ ret' = split_items(g.rows)
                       /\ hist' = Append(hist, ret')
                       /\ exhausted' = exhausted
                  ELSE /\ ret' = <<>>
                       /\ hist' = hist
                       /\ exhausted' = (exhausted \/ g.res = "StopIteration")
    /\ UNCHANGED <<config, len, iters, started, full, variant>>

\* BinaryDataLoader.__next__ called by the driving loop
DoNext == next_call /\ UNCHANGED titems

Next == DoLen \/ DoIter \/ DoNext

Spec == Init /\ [][Next]_vars

\* data_file_format as it would be with the mask field before the two single
\* positions
data_file_format_swapped(sequence_length, mask_tokens) ==
    <<sequence_length, sequence_length, sequence_length, mask_tokens, 1, 1, 1>>

\* ------------------------------------------------- BertDataTransform
\* data_file_format(sequence_length, mask_tokens)
data_file_format(sequence_length, mask_tokens) ==
    <<sequence_length, sequence_length, sequence_length, 1, 1, mask_tokens, 1>>

\* the layouts of the loaders the transform is explored on
TransformLayouts == {data_file_format(1, 1), data_file_format(2, 2)}
\* the values the elements of those loaders' files take, in turn
TokenValues == <<-1, 0, 1, 2, 3, 100, 101, 200>>
\* vocab_length
VocabLengths == {1, 3, 101}

\* 100 is unknown token [UNK]
UNK == 100
\* 0 in the label is padding
PAD == 0

\* the halves of a 32-bit word
HalfWord == 65536

\* astype(np.uint32) of one int32 element: the 32-bit word of the same bits,
\* as <<high half, low half>> (a negative value wraps to 2^32 + v)
to_uint32(v) ==
    IF v >= 0
    THEN <<v \div HalfWord, v % HalfWord>>
    ELSE <<(HalfWord - 1) - ((-v - 1) \div HalfWord),
           (HalfWord - 1) - ((-v - 1) % HalfWord)>>

\* items[i].astype(np.uint32)
astype_uint32(a) ==
    [dtype |-> "uint32",
     a |-> [r \in 1..Len(a) |-> [c \in 1..Len(a[r]) |-> to_uint32(a[r][c])]]]

\* the masking as it would be if the comparison were strict
mask_oob_strict(a, value) ==
    [r \in 1..Len(a) |->
        [c \in 1..Len(a[r]) |->
            IF a[r][c] > vocab_length THEN value ELSE a[r][c]]]

\* a[a >= self.vocab_length] = value
mask_oob(a, value) ==
    [r \in 1..Len(a) |->
        [c \in 1..Len(a[r]) |->
            IF a[r][c] >= vocab_length THEN value ELSE a[r][c]]]

\* the transform as it would be if only the first field were masked
transform_first_only(items) ==
    LET masked == [items EXCEPT ![1] = mask_oob(items[1], UNK)]
    IN  [i \in 1..Len(items) |-> astype_uint32(masked[i])]

\* the statements of BertDataTransform.__next__ that follow next(): the
\* list it returns for the loader's items (of six fields or more)
transform(items) ==
    LET masked == [items EXCEPT ![1] = mask_oob(items[1], UNK),
                                ![6] = mask_oob(items[6], PAD)]
    IN  [i \in 1..Len(items) |-> astype_uint32(masked[i])]

\* BertDataTransform.__next__
DoTransformNext ==
    /\ next_call
    /\ titems' = IF outcome' = "ok" THEN transform(ret') ELSE <<>>

\* BertDataTransform over a loader that reads its files in order
InitT ==
    /\ shuffle = FALSE
    /\ sample_sizes \in TransformLayouts
    /\ batch_size \in 1..MaxBatch
    /\ duplication_factor = 1
    /\ start_data_at_epoch = 0
    /\ vocab_length \in VocabLengths
    /\ \E n \in FileCounts, shift \in 0..(Len(TokenValues) - 1) :
         /\ files = [i \in 1..n |-> i]
         /\ \E recs \in RecordCounts(n, MaxRecords - 2) :
              fsize = FileSet(n, recs, 0)
         /\ fdata = [f \in 1..n |->
                       [k \in 1..(fsize[f] \div itemsize) |->
                           TokenValues[((k + f + shift) % Len(TokenValues)) + 1]]]
         /\ file_duplication_index = [i \in 1..n |-> 0]
    /\ Constructed
    /\ Streaming

\* BertDataTransform.__len__ and __iter__ delegate to the loader
NextT == DoLen \/ DoIter \/ DoTransformNext

SpecT == InitT /\ [][NextT]_vars

\* --------------------------------------------------- CachedDataLoader
\* epochs_to_cache
EpochsToCache == -1..2

\* the class name of a loader whose constructor raised: there is no object
NoLoader == "None"
\* the class name while the subclass's part of __init__ has yet to run
UnderConstruction == ""

RECURSIVE load_epoch(_, _)
\* the inner loop of load_cache as it would be if every file's rows were put
\* in front of those loaded before
load_epoch_reversed(s, k) ==
    IF k = 0
    THEN [res |-> "ok", s |-> s, rows |-> <<>>]
    ELSE LET r == load_file(s)
         IN  IF r.res # "ok"
             THEN [res |-> r.res, s |-> r.s, rows |-> <<>>]
             ELSE LET rest == load_epoch(r.s, k - 1)
                  IN  IF rest.res # "ok"
                      THEN rest
                      ELSE [rest EXCEPT !.rows = rest.rows \o r.rows]

\* for __ in tqdm(self.files): data.append(self.load_file()), with k files
\* still to go; rows is np.concatenate(data, axis=0)
load_epoch(s, k) ==
    IF k = 0
    THEN [res |-> "ok", s |-> s, rows |-> <<>>]
    ELSE LET r == load_file(s)
         IN  IF r.res # "ok"
             THEN [res |-> r.res, s |-> r.s, rows |-> <<>>]
             ELSE LET rest == load_epoch(r.s, k - 1)
                  IN  IF rest.res # "ok"
                      THEN rest
                      ELSE [rest EXCEPT !.rows = r.rows \o rest.rows]

RECURSIVE fill_cache_noreset(_, _, _)
\* the loop of load_cache as it would be without self.file_index = 0 after
\* an epoch: self.files[self.file_index] of the next epoch raises IndexError
fill_cache_noreset(s, cache, k) ==
    IF k <= 0
    THEN {[res |-> "ok", s |-> s, cache |-> cache]}
    ELSE IF Len(s.files) = 0
    THEN {[res |-> "ValueError", s |-> s, cache |-> cache]}
    ELSE IF s.file_index >= Len(s.files)
    THEN {[res |-> "IndexError", s |-> s, cache |-> cache]}
    ELSE LET e == load_epoch(s, Len(s.files))
         IN  IF e.res # "ok"
             THEN {[res |-> e.res, s |-> e.s, cache |-> cache]}
             ELSE UNION {fill_cache_noreset(e.s, Append(cache, d), k - 1) :
                         d \in IF shuffle THEN Shuffled(e.rows) ELSE {e.rows}}

RECURSIVE fill_cache(_, _, _)
\* the loop of load_cache with k epochs still to go: the set of outcomes
\* [res, s, cache].  np.concatenate raises ValueError on an empty list.
fill_cache(s, cache, k) ==
    IF k <= 0
    THEN {[res |-> "ok", s |-> s, cache |-> cache]}
    ELSE IF Len(s.files) = 0
    THEN {[res |-> "ValueError", s |-> s, cache |-> cache]}
    ELSE LET e == load_epoch(s, Len(s.files))
         IN  IF e.res # "ok"
             THEN {[res |-> e.res, s |-> e.s, cache |-> cache]}
             ELSE UNION {fill_cache([e.s EXCEPT !.file_index = 0],
                                    Append(cache, d), k - 1) :
                         d \in IF shuffle THEN Shuffled(e.rows) ELSE {e.rows}}

\* CachedDataLoader.load_cache: cache_index is 0 and data_cache is the cache
\* of the outcome
load_cache(s) == fill_cache(s, <<>>, epochs_to_cache)

\* CachedDataLoader.load_data as it would be if the cache were refilled
\* whenever it is exhausted
CachedDataLoader_load_data_refilling(s, cache, ci) ==
    LET fills == IF ci >= Len(cache)
                 THEN load_cache(s)
                 ELSE {[res |-> "ok", s |-> s, cache |-> cache]}
        ci0   == IF ci >= Len(cache) THEN 0 ELSE ci
    IN  {IF c.res # "ok"
         THEN [res |-> c.res, s |-> c.s, cache |-> c.cache, cache_index |-> 0]
         ELSE [res |-> "ok",
               s |-> [c.s EXCEPT !.data = c.cache[ci0 + 1], !.data_set = TRUE],
               cache |-> c.cache,
               cache_index |-> ci0 + 1] : c \in fills}

\* CachedDataLoader.load_data as it would be if cache_index were not advanced
CachedDataLoader_load_data_stuck(s, cache, ci) ==
    LET fills == IF ci >= Len(cache) /\ (shuffle \/ duplication_factor > 1)
                 THEN load_cache(s)
                 ELSE {[res |-> "ok", s |-> s, cache |-> cache]}
        ci0   == IF ci >= Len(cache) THEN 0 ELSE ci
    IN  {IF c.res # "ok"
         THEN [res |-> c.res, s |-> c.s, cache |-> c.cache, cache_index |-> 0]
         ELSE [res |-> "ok",
               s |-> [c.s EXCEPT !.data = c.cache[ci0 + 1], !.data_set = TRUE],
               cache |-> c.cache,
               cache_index |-> ci0] : c \in fills}

\* CachedDataLoader.load_data as it would be if an exhausted cache that is
\* not refilled were served by cache_index modulo the number of buffers,
\* cache_index being left to grow
CachedDataLoader_load_data_wrapping(s, cache, ci) ==
    LET refill == ci >= Len(cache) /\ (shuffle \/ duplication_factor > 1)
        fills == IF refill
                 THEN load_cache(s)
                 ELSE {[res |-> "ok", s |-> s, cache |-> cache]}
        ci0   == IF refill THEN 0 ELSE ci
    IN  {IF c.res # "ok"
         THEN [res |-> c.res, s |-> c.s, cache |-> c.cache, cache_index |-> 0]
         ELSE [res |-> "ok",
               s |-> [c.s EXCEPT !.data = c.cache[(ci0 % Len(c.cache)) + 1],
                                 !.data_set = TRUE],
               cache |-> c.cache,
               cache_index |-> ci0 + 1] : c \in fills}

\* CachedDataLoader.load_data: the set of outcomes [res, s, cache, cache_index]
CachedDataLoader_load_data(s, cache, ci) ==
    LET fills == IF ci >= Len(cache) /\ (shuffle \/ duplication_factor > 1)
                 THEN load_cache(s)
                 ELSE {[res |-> "ok", s |-> s, cache |-> cache]}
        ci0   == IF ci >= Len(cache) THEN 0 ELSE ci
    IN  {IF c.res # "ok"
         THEN [res |-> c.res, s |-> c.s, cache |-> c.cache, cache_index |-> 0]
         ELSE [res |-> "ok",
               s |-> [c.s EXCEPT !.data = c.cache[ci0 + 1], !.data_set = TRUE],
               cache |-> c.cache,
               cache_index |-> ci0 + 1] : c \in fills}

\* CachedDataLoader.get_data as it would be if the unread rows of the buffer
\* were returned as a last, short batch
CachedDataLoader_get_data_short(s, n) ==
    IF s.data_index + n > Len(s.data) /\ s.data_index < Len(s.data)
    THEN [res |-> "ok",
          s |-> [s EXCEPT !.data_index = Len(s.data)],
          rows |-> SubSeq(s.data, s.data_index + 1, Len(s.data))]
    ELSE IF s.data_index + n > Len(s.data)
    THEN [res |-> "StopIteration", s |-> s, rows |-> <<>>]
    ELSE [res |-> "ok",
          s |-> [s EXCEPT !.data_index = s.data_index + n],
          rows |-> SubSeq(s.data, s.data_index + 1, s.data_index + n)]

\* CachedDataLoader.get_data as it would be if it stopped when exactly
\* batch_size rows are left
CachedDataLoader_get_data_strict(s, n) ==
    IF s.data_index + n >= Len(s.data)
    THEN [res |-> "StopIteration", s |-> s, rows |-> <<>>]
    ELSE [res |-> "ok",
          s |-> [s EXCEPT !.data_index = s.data_index + n],
          rows |-> SubSeq(s.data, s.data_index + 1, s.data_index + n)]

\* CachedDataLoader.get_data as it would be if data_index were advanced
\* before the test for rows left
CachedDataLoader_get_data_advancing(s, n) ==
    IF s.data_index + n > Len(s.data)
    THEN [res |-> "StopIteration",
          s |-> [s EXCEPT !.data_index = s.data_index + n], rows |-> <<>>]
    ELSE [res |-> "ok",
          s |-> [s EXCEPT !.data_index = s.data_index + n],
          rows |-> SubSeq(s.data, s.data_index + 1, s.data_index + n)]

\* CachedDataLoader.get_data(batch_size): the outcome [res, s, rows]
CachedDataLoader_get_data(s, n) ==
    IF s.data_index + n > Len(s.data)
    THEN [res |-> "StopIteration", s |-> s, rows |-> <<>>]
    ELSE [res |-> "ok",
          s |-> [s EXCEPT !.data_index = s.data_index + n],
          rows |-> SubSeq(s.data, s.data_index + 1, s.data_index + n)]

\* CachedDataLoader.__init__ as it would be without the test of
\* epochs_to_cache: data_cache[0] of an empty cache raises IndexError
CachedInit_unchecked ==
    /\ dl = UnderConstruction
    /\ op' = "init"
    /\ ret' = <<>>
    /\ \E c \in load_cache(LoaderState) :
          /\ Store(c.s)
          /\ data_cache' = c.cache
          /\ cache_index' = 0
          /\ outcome' = IF c.res = "ok" /\ c.cache = <<>>
                        THEN "IndexError" ELSE c.res
          /\ IF outcome' = "ok"
             THEN /\ len' = <<Len(c.cache[1]) \div batch_size>>
                  /\ dl' = "CachedDataLoader"
             ELSE /\ len' = len
                  /\ dl' = NoLoader
    /\ UNCHANGED <<config, hist, iters, started, exhausted, full, titems,
                   epochs_to_cache, generated_ranges, args>>

\* the statements of CachedDataLoader.__init__ that follow super().__init__()
CachedInit ==
    /\ dl = UnderConstruction
    /\ op' = "init"
    /\ ret' = <<>>
    /\ IF epochs_to_cache < 1
       THEN /\ outcome' = "RuntimeError"
            /\ dl' = NoLoader
            /\ data_cache' = <<>>
            /\ cache_index' = 0
            /\ UNCHANGED <<files, file_index, data_index,
                           file_duplication_index, data, data_set, loads, len>>
       ELSE \E c \in load_cache(LoaderState) :
               /\ Store(c.s)
               /\ data_cache' = c.cache
               /\ cache_index' = 0
               /\ outcome' = c.res
               /\ IF c.res = "ok"
                  THEN /\ len' = <<Len(c.cache[1]) \div batch_size>>
                       /\ dl' = "CachedDataLoader"
                  ELSE /\ len' = len
                       /\ dl' = NoLoader
    /\ UNCHANGED <<config, hist, iters, started, exhausted, full, titems,
                   epochs_to_cache, generated_ranges, args>>

\* CachedDataLoader.__len__ (inherited: self.len is set by __init__)
CachedLen == dl = "CachedDataLoader" /\ DoLen

\* CachedDataLoader.__iter__ (inherited; load_data is the subclass's)
CachedIter ==
    /\ dl = "CachedDataLoader"
    /\ \E fs \in IF shuffle THEN Shuffled(files) ELSE {files} :
         \E l \in CachedDataLoader_load_data(iter_reset(fs), data_cache,
                                             cache_index) :
            /\ Store(l.s)
            /\ data_cache' = l.cache
            /\ cache_index' = l.cache_index
            /\ outcome' = l.res
    /\ op' = "iter"
    /\ ret' = <<>>
    /\ hist' = <<>>
    /\ iters' = (iters + 1) % (2 * duplication_factor)
    /\ started' = TRUE
    /\ exhausted' = FALSE
    /\ full' = (full /\ (~started \/ exhausted))
    /\ UNCHANGED <<config, len, titems, epochs_to_cache, generated_ranges,
                   args, dl>>

\* CachedDataLoader.__next__ (inherited; get_data is the subclass's), whoever
\* calls it
cached_next_call ==
    /\ dl = "CachedDataLoader"
    /\ op' = "next"
    /\ IF ~data_set
       THEN /\ outcome' = "AttributeError"
            /\ ret' = <<>>
            /\ UNCHANGED <<files, file_index, data_index, file_duplication_index,
                           data, data_set, loads, hist, exhausted>>
       ELSE LET g == CachedDataLoader_get_data(LoaderState, batch_size)
            IN  /\ Store(g.s)
                /\ outcome' = g.res
                /\ IF g.res = "ok"
                   THEN /\ ret' = split_items(g.rows)
                        /\ hist' = Append(hist, ret')
                        /\ exhausted' = exhausted
                   ELSE /\ ret' = <<>>
                        /\ hist' = hist
                        /\ exhausted' = TRUE
    /\ UNCHANGED <<config, len, iters, started, full, variant>>

\* CachedDataLoader.__next__ called by the driving loop
CachedNext == cached_next_call /\ UNCHANGED titems

\* the loader when super().__init__() has returned.  A shuffling loader is
\* explored on file sets of two records at most, as every fill of the cache
\* then has one successor per row order of every cached epoch.
InitC ==
    /\ \/ shuffle = FALSE /\ Construct(MaxRecords)
       \/ shuffle = TRUE /\ Construct(2)
    /\ vocab_length = 0
    /\ Constructed
    /\ epochs_to_cache \in EpochsToCache
    /\ data_cache = <<>>
    /\ cache_index = 0
    /\ generated_ranges = <<>>
    /\ args = <<>>
    /\ dl = UnderConstruction

NextC == CachedInit \/ CachedLen \/ CachedIter \/ CachedNext

SpecC == InitC /\ [][NextC]_vars

\* ------------------------------------------------ GeneratedDataLoader
\* the largest length the loader is constructed with
MaxLength == 2
\* the largest number of elements one iteration draws: the configurations
\* explored have batch_size * sample_size * length <= MaxDraws
MaxDraws == 6
\* the exclusive upper bounds of generated_ranges
RangeValues == 1..2

\* the generated_ranges argument: None, or one upper bound per field
RangeArgs ==
    {<<>>} \cup {<<r>> : r \in [1..Len(sample_sizes) -> RangeValues]}

\* the number of pairs zip(self.sample_sizes, self.generated_ranges) yields
zip_len(ranges) == Min(Len(sample_sizes), Len(ranges))

\* np.random.randint as it would be if max_value were an inclusive bound
randint_inclusive(max_value, rows, size) ==
    [1..rows -> [1..size -> 0..max_value]]

\* np.random.randint(0, max_value, [rows, size]): the arrays it may return
randint(max_value, rows, size) ==
    [1..rows -> [1..size -> 0..(max_value - 1)]]

\* the lists of items the loop of __next__ may build: one randint block per
\* pair of zip(sample_sizes, generated_ranges)
generate(ranges) ==
    {items \in [1..zip_len(ranges) ->
                  UNION {randint(ranges[i], batch_size, sample_sizes[i]) :
                         i \in 1..zip_len(ranges)}] :
        \A i \in 1..zip_len(ranges) :
            items[i] \in randint(ranges[i], batch_size, sample_sizes[i])}

\* the statements of GeneratedDataLoader.__init__ that follow
\* super().__init__()
GeneratedInit ==
    /\ dl = UnderConstruction
    /\ args = <<>>
    /\ \E length \in 0..MaxLength, ranges \in RangeArgs :
          /\ batch_size * sample_size * length <= MaxDraws
          /\ generated_ranges' = ranges
          /\ len' = <<length>>
          /\ IF ranges = <<>>
             THEN outcome' = "RuntimeError" /\ dl' = NoLoader
             ELSE outcome' = "ok" /\ dl' = "GeneratedDataLoader"
    /\ op' = "init"
    /\ ret' = <<>>
    /\ UNCHANGED <<files, config, file_index, data_index,
                   file_duplication_index, data, data_set, loads, hist, iters,
                   started, exhausted, full, titems, epochs_to_cache,
                   data_cache, cache_index, args>>

\* GeneratedDataLoader.__len__ (inherited: self.len is set by __init__)
GeneratedLen == dl = "GeneratedDataLoader" /\ DoLen

\* the __iter__ of GeneratedDataLoader as it would be if it left data_index
\* alone
GeneratedIter_noreset ==
    /\ dl = "GeneratedDataLoader"
    /\ op' = "iter"
    /\ outcome' = "ok"
    /\ ret' = <<>>
    /\ hist' = <<>>
    /\ iters' = (iters + 1) % (2 * duplication_factor)
    /\ started' = TRUE
    /\ exhausted' = FALSE
    /\ full' = (full /\ (~started \/ exhausted))
    /\ UNCHANGED <<files, config, len, file_index, data_index,
                   file_duplication_index, data, data_set, loads, titems,
                   variant>>

\* the __iter__ of GeneratedDataLoader as it would be if it shuffled the file
\* list as the inherited __iter__ does
GeneratedIter_shuffling ==
    /\ dl = "GeneratedDataLoader"
    /\ data_index' = 0
    /\ files' \in IF shuffle THEN Shuffled(files) ELSE {files}
    /\ op' = "iter"
    /\ outcome' = "ok"
    /\ ret' = <<>>
    /\ hist' = <<>>
    /\ iters' = (iters + 1) % (2 * duplication_factor)
    /\ started' = TRUE
    /\ exhausted' = FALSE
    /\ full' = (full /\ (~started \/ exhausted))
    /\ UNCHANGED <<config, len, file_index, file_duplication_index,
                   data, data_set, loads, titems, variant>>

\* GeneratedDataLoader.__iter__
GeneratedIter ==
    /\ dl = "GeneratedDataLoader"
    /\ data_index' = 0
    /\ op' = "iter"
    /\ outcome' = "ok"
    /\ ret' = <<>>
    /\ hist' = <<>>
    /\ iters' = (iters + 1) % (2 * duplication_factor)
    /\ started' = TRUE
    /\ exhausted' = FALSE
    /\ full' = (full /\ (~started \/ exhausted))
    /\ UNCHANGED <<files, config, len, file_index, file_duplication_index,
                   data, data_set, loads, titems, variant>>

\* GeneratedDataLoader.__next__
GeneratedNext ==
    /\ dl = "GeneratedDataLoader"
    /\ op' = "next"
    /\ IF data_index >= len[1]
       THEN /\ outcome' = "StopIteration"
            /\ ret' = <<>>
            /\ exhausted' = TRUE
            /\ UNCHANGED <<data_index, hist>>
       ELSE /\ outcome' = "ok"
            /\ ret' \in generate(generated_ranges[1])
            /\ hist' = Append(hist, ret')
            /\ data_index' = data_index + 1
            /\ exhausted' = exhausted
    /\ UNCHANGED <<files, config, len, file_index, file_duplication_index,
                   data, data_set, loads, iters, started, full, titems,
                   variant>>

\* the loader when super().__init__() has returned; the files are of one
\* record at most, well formed or not
InitG ==
    /\ shuffle \in BOOLEAN
    /\ Construct(1)
    /\ start_data_at_epoch = 0
    /\ vocab_length = 0
    /\ Constructed
    /\ epochs_to_cache = 0
    /\ data_cache = <<>>
    /\ cache_index = 0
    /\ generated_ranges = <<>>
    /\ args = <<>>
    /\ dl = UnderConstruction

NextG == GeneratedInit \/ GeneratedLen \/ GeneratedIter \/ GeneratedNext

SpecG == InitG /\ [][NextG]_vars

\* ---------------------------------------------------- get_bert_dataset
\* packed_data_file_format(sequence_length, mask_tokens, max_sequences_per_pack)
packed_data_file_format(sequence_length, mask_tokens, max_sequences_per_pack) ==
    <<sequence_length, sequence_length, sequence_length, sequence_length,
      mask_tokens + max_sequences_per_pack,
      mask_tokens + max_sequences_per_pack,
      mask_tokens + max_sequences_per_pack,
      max_sequences_per_pack, max_sequences_per_pack, max_sequences_per_pack>>

\* data_ranges(sequence_length, mask_tokens, vocab_length)
data_ranges(sequence_length, mask_tokens, vocab) ==
    <<vocab, sequence_length, 2, mask_tokens + 1, sequence_length + 1, vocab, 3>>

\* packed_data_ranges(sequence_length, mask_tokens, vocab_length,
\* max_sequences_per_pack)
packed_data_ranges(sequence_length, mask_tokens, vocab, max_sequences_per_pack) ==
    <<vocab, max_sequences_per_pack, 2, sequence_length, sequence_length,
      vocab, max_sequences_per_pack, sequence_length, 1, 1>>

\* the endings of the names in args.input_files
Suffixes == {"bin", "tfrecord", "TFRecord"}

\* str.lower() of an ending
lower(suffix) == IF suffix = "TFRecord" THEN "tfrecord" ELSE suffix

\* the args get_bert_dataset is explored on: every flag either way, up to two
\* input files of any ending, sequences of one token
ArgSets ==
    [generated_data : BOOLEAN, synthetic_data : BOOLEAN,
     use_packed_sequence_format : BOOLEAN, use_popdist : BOOLEAN,
     popdist_size : {2}, epochs_to_cache : {0, 1},
     input_files : UNION {[1..n -> Suffixes] : n \in FileCounts},
     micro_batch_size : 1..2, batches_per_step : {1},
     replication_factor : {1}, gradient_accumulation_factor : {1},
     sequence_length : {1}, mask_tokens : {1}, max_sequences_per_pack : {1},
     vocab_length : {1}, duplication_factor : {1},
     continue_training_from_epoch : {0}, shuffle : {FALSE}]

\* samples_per_step
samples_per_step(a) ==
    a.micro_batch_size * a.batches_per_step * a.replication_factor
        * a.gradient_accumulation_factor

\* sample_sizes, as get_bert_dataset chooses it
args_sample_sizes(a) ==
    IF a.use_packed_sequence_format
    THEN packed_data_file_format(a.sequence_length, a.mask_tokens,
                                 a.max_sequences_per_pack)
    ELSE data_file_format(a.sequence_length, a.mask_tokens)

\* synthetic_data_ranges, as get_bert_dataset chooses it
synthetic_data_ranges(a) ==
    IF a.use_packed_sequence_format
    THEN packed_data_ranges(a.sequence_length, a.mask_tokens, a.vocab_length,
                            a.max_sequences_per_pack)
    ELSE data_ranges(a.sequence_length, a.mask_tokens, a.vocab_length)

\* tfrecord_input as it would be without lower()
tfrecord_input_exact(a) ==
    IF Len(a.input_files) > 0
    THEN a.input_files[1] = "tfrecord"
    ELSE FALSE

\* tfrecord_input as it would be if any input file were looked at
tfrecord_input_any(a) ==
    \E i \in 1..Len(a.input_files) : lower(a.input_files[i]) = "tfrecord"

\* tfrecord_input
tfrecord_input(a) ==
    IF Len(a.input_files) > 0
    THEN lower(a.input_files[1]) = "tfrecord"
    ELSE FALSE

\* the lengths the loader of the other file format may report (it is
\* constructed from the input files and samples_per_step)
TfRecordLengths == 0..1

\* the lengths SampleGenerator may report for a loader of n batches: those of
\* this process's part of them
SampledLengths(n) == 0..n

\* the state get_bert_dataset leaves when it raises exc: s is the loader
\* state, cache the cache of the loader that was being constructed
Raised(exc, s, cache, l, ranges) ==
    [outcome |-> exc, dl |-> NoLoader, s |-> s, cache |-> cache, len |-> l,
     ranges |-> ranges, ds |-> <<>>]

\* the rest of get_bert_dataset as it would be without the test of len(dl)
Composed_unchecked(a, class, s, cache, l, ranges, n) ==
    {[outcome |-> "ok", dl |-> class, s |-> s, cache |-> cache,
      len |-> l, ranges |-> ranges,
      ds |-> <<[loader |-> class, sampler |-> a.use_popdist,
                transform |-> "BertDataTransform", len |-> m]>>] :
     m \in IF a.use_popdist THEN SampledLengths(n) ELSE {n}}

\* the rest of get_bert_dataset once dl is constructed: the optional sampler,
\* the test of len(dl), the transform and the DataSet.  n is len(dl) of the
\* loader, l what its self.len then holds.
Composed(a, class, s, cache, l, ranges, n) ==
    {IF m = 0
     THEN Raised("ValueError", s, cache, l, ranges)
     ELSE [outcome |-> "ok", dl |-> class, s |-> s, cache |-> cache,
           len |-> l, ranges |-> ranges,
           ds |-> <<[loader |-> class, sampler |-> a.use_popdist,
                     transform |-> "BertDataTransform", len |-> m]>>] :
     m \in IF a.use_popdist THEN SampledLengths(n) ELSE {n}}

\* the body of get_bert_dataset as it would be without the test for input
\* files
select_loader_unchecked(a) ==
    LET generated == a.generated_data \/ a.synthetic_data
        s0 == LoaderState
    IN  IF generated
        THEN LET length == IF a.use_popdist THEN a.popdist_size ELSE 1
             IN  Composed(a, "GeneratedDataLoader", s0, <<>>, <<length>>,
                          <<synthetic_data_ranges(a)>>, length)
        ELSE IF tfrecord_input(a)
        THEN IF a.use_packed_sequence_format
             THEN {Raised("RuntimeError", s0, <<>>, <<>>, <<>>)}
             ELSE UNION {Composed(a, "PretrainingTfRecordDataLoader", s0, <<>>,
                                  <<n>>, <<>>, n) : n \in TfRecordLengths}
        ELSE IF a.epochs_to_cache > 0
        THEN UNION {IF c.res # "ok"
                    THEN {Raised(c.res, c.s, c.cache, <<>>, <<>>)}
                    ELSE LET n == Len(c.cache[1]) \div batch_size
                         IN  Composed(a, "CachedDataLoader", c.s, c.cache,
                                      <<n>>, <<>>, n) :
                    c \in load_cache(s0)}
        ELSE IF \E i \in 1..Len(files) : samples_in_file_raises(files[i])
        THEN {Raised("RuntimeError", s0, <<>>, <<>>, <<>>)}
        ELSE Composed(a, "BinaryDataLoader", s0, <<>>, <<len_value>>, <<>>,
                      len_value)

\* the body of get_bert_dataset: the set of outcomes
\* [outcome, dl, s, cache, len, ranges, ds]
select_loader(a) ==
    LET generated == a.generated_data \/ a.synthetic_data
        s0 == LoaderState
    IN  IF ~generated /\ Len(a.input_files) = 0
        THEN {Raised("ValueError", s0, <<>>, <<>>, <<>>)}
        ELSE IF generated
        THEN LET length == IF a.use_popdist THEN a.popdist_size ELSE 1
             IN  Composed(a, "GeneratedDataLoader", s0, <<>>, <<length>>,
                          <<synthetic_data_ranges(a)>>, length)
        ELSE IF tfrecord_input(a)
        THEN IF a.use_packed_sequence_format
             THEN {Raised("RuntimeError", s0, <<>>, <<>>, <<>>)}
             ELSE UNION {Composed(a, "PretrainingTfRecordDataLoader", s0, <<>>,
                                  <<n>>, <<>>, n) : n \in TfRecordLengths}
        ELSE IF a.epochs_to_cache > 0
        THEN UNION {IF c.res # "ok"
                    THEN {Raised(c.res, c.s, c.cache, <<>>, <<>>)}
                    ELSE LET n == Len(c.cache[1]) \div batch_size
                         IN  Composed(a, "CachedDataLoader", c.s, c.cache,
                                      <<n>>, <<>>, n) :
                    c \in load_cache(s0)}
        ELSE IF \E i \in 1..Len(files) : samples_in_file_raises(files[i])
        THEN {Raised("RuntimeError", s0, <<>>, <<>>, <<>>)}
        ELSE Composed(a, "BinaryDataLoader", s0, <<>>, <<len_value>>, <<>>,
                      len_value)

\* get_bert_dataset(args, tensor_shapes)
get_bert_dataset ==
    /\ dl = UnderConstruction
    /\ args # <<>>
    /\ op' = "get_bert_dataset"
    /\ \E r \in select_loader(args[1]) :
          /\ outcome' = r.outcome
          /\ dl' = r.dl
          /\ Store(r.s)
          /\ data_cache' = r.cache
          /\ len' = r.len
          /\ generated_ranges' = r.ranges
          /\ ret' = r.ds
    /\ UNCHANGED <<config, hist, iters, started, exhausted, full, titems,
                   epochs_to_cache, cache_index, args>>

\* the call of get_bert_dataset: its args, the files they name (one per
\* input file, of two records at most together) and the arguments of the
\* loader it constructs (data_loader_args)
InitA ==
    /\ \E a \in ArgSets :
          /\ args = <<a>>
          /\ sample_sizes = args_sample_sizes(a)
          /\ batch_size = samples_per_step(a)
          /\ duplication_factor = a.duplication_factor
          /\ start_data_at_epoch = a.continue_training_from_epoch
          /\ shuffle = a.shuffle
          /\ epochs_to_cache = a.epochs_to_cache
          /\ vocab_length = a.vocab_length
          /\ files = [i \in 1..Len(a.input_files) |-> i]
    /\ \E recs \in RecordCounts(Len(files), 2), bad \in 0..Len(files) :
          fsize = FileSet(Len(files), recs, bad)
    /\ fdata = [f \in 1..Len(files) |->
                  [k \in 1..(fsize[f] \div itemsize) |-> Content(f, k - 1)]]
    /\ file_duplication_index =
          [i \in 1..Len(files) |-> start_data_at_epoch % duplication_factor]
    /\ Constructed
    /\ data_cache = <<>>
    /\ cache_index = 0
    /\ generated_ranges = <<>>
    /\ dl = UnderConstruction

\* the constructions: get_bert_dataset, and GeneratedDataLoader called
\* directly
NextA == get_bert_dataset \/ GeneratedInit

SpecA == (InitA \/ InitG) /\ [][NextA]_vars

\* ==================================================== shuffling loaders
\* the streaming and the cached loader constructed with shuffle = True
InitS == shuffle = TRUE /\ (Init \/ InitC)

\* the calls of either loader
NextS == (dl = "BinaryDataLoader" /\ Next) \/ NextC

SpecS == InitS /\ [][NextS]_vars

\* ============================================ file-backed loaders, both
\* the streaming and the cached loader, each over its own configurations
InitB == Init \/ InitC

\* the calls of either loader
NextB == (dl = "BinaryDataLoader" /\ Next) \/ NextC

SpecB == InitB /\ [][NextB]_vars

\* =================================== the transform over either loader
\* the columns of a row that field i takes (1-based, inclusive)
FieldColumns(i) ==
    (SumSeq(SubSeq(sample_sizes, 1, i - 1)) + 1)..
        SumSeq(SubSeq(sample_sizes, 1, i))

\* BertDataTransform.__next__ over the cached loader as it would be if
\* BinaryDataLoader.__next__ handed out slices of self.data instead of
\* np.array copies: the masking then writes into the buffer being served,
\* which is the cached buffer itself
CachedTransformNext_aliasing ==
    /\ dl = "CachedDataLoader"
    /\ op' = "next"
    /\ IF ~data_set
       THEN /\ outcome' = "AttributeError"
            /\ ret' = <<>>
            /\ titems' = <<>>
            /\ UNCHANGED <<files, file_index, data_index, file_duplication_index,
                           data, data_set, loads, hist, exhausted, data_cache>>
       ELSE LET g == CachedDataLoader_get_data(LoaderState, batch_size)
                written ==
                    [r \in 1..Len(data) |->
                        IF r \in (data_index + 1)..(data_index + batch_size)
                        THEN [c \in 1..sample_size |->
                                IF c \in FieldColumns(1)
                                      /\ data[r][c] >= vocab_length
                                THEN UNK
                                ELSE IF c \in FieldColumns(6)
                                           /\ data[r][c] >= vocab_length
                                THEN PAD
                                ELSE data[r][c]]
                        ELSE data[r]]
            IN  /\ outcome' = g.res
                /\ UNCHANGED <<files, file_index, file_duplication_index,
                               data_set, loads>>
                /\ data_index' = g.s.data_index
                /\ IF g.res = "ok"
                   THEN /\ ret' = split_items(g.rows)
                        /\ titems' = transform(ret')
                        /\ hist' = Append(hist, ret')
                        /\ exhausted' = exhausted
                        /\ data' = written
                        /\ data_cache' =
                              [data_cache EXCEPT ![cache_index] = written]
                   ELSE /\ ret' = <<>>
                        /\ titems' = <<>>
                        /\ hist' = hist
                        /\ exhausted' = TRUE
                        /\ UNCHANGED <<data, data_cache>>
    /\ UNCHANGED <<config, len, iters, started, full, epochs_to_cache,
                   cache_index, generated_ranges, args, dl>>

\* BertDataTransform.__next__ over the cached loader
CachedTransformNext ==
    /\ cached_next_call
    /\ titems' = IF outcome' = "ok" THEN transform(ret') ELSE <<>>

\* BertDataTransform over a cached loader that does not shuffle, when
\* super().__init__() of the loader has returned
InitTC ==
    /\ shuffle = FALSE
    /\ sample_sizes \in TransformLayouts
    /\ batch_size \in 1..MaxBatch
    /\ duplication_factor = 1
    /\ start_data_at_epoch = 0
    /\ vocab_length \in VocabLengths
    /\ \E n \in FileCounts, shift \in 0..(Len(TokenValues) - 1) :
         /\ files = [i \in 1..n |-> i]
         /\ \E recs \in RecordCounts(n, MaxRecords - 2) :
              fsize = FileSet(n, recs, 0)
         /\ fdata = [f \in 1..n |->
                       [k \in 1..(fsize[f] \div itemsize) |->
                           TokenValues[((k + f + shift) % Len(TokenValues)) + 1]]]
         /\ file_duplication_index = [i \in 1..n |-> 0]
    /\ Constructed
    /\ epochs_to_cache \in {1, 2}
    /\ data_cache = <<>>
    /\ cache_index = 0
    /\ generated_ranges = <<>>
    /\ args = <<>>
    /\ dl = UnderConstruction

\* the transform over the streaming or over the cached loader
InitU == InitT \/ InitTC

NextU ==
    \/ dl = "BinaryDataLoader" /\ NextT
    \/ CachedInit
    \/ CachedLen
    \/ CachedIter
    \/ CachedTransformNext

SpecU == InitU /\ [][NextU]_vars

\* ================================================== the record layouts
\* args.sequence_length, args.mask_tokens and args.max_sequences_per_pack the
\* layouts are computed for
SequenceLengths == {1, 2, 3, 20}
MaskTokens == {0, 1, 2, 3}
PackSizes == {1, 2, 3}

\* the args the layouts are computed for
LayoutArgs ==
    [sequence_length : SequenceLengths, mask_tokens : MaskTokens,
     max_sequences_per_pack : PackSizes, vocab_length : VocabLengths,
     use_packed_sequence_format : BOOLEAN]

\* the first statements of get_bert_dataset: sample_sizes and
\* synthetic_data_ranges of the layout args names
DoLayout ==
    /\ args # <<>>
    /\ op = "init"
    /\ op' = "layout"
    /\ sample_sizes' = args_sample_sizes(args[1])
    /\ generated_ranges' = <<synthetic_data_ranges(args[1])>>
    /\ UNCHANGED <<files, fsize, fdata, batch_size, duplication_factor,
                   start_data_at_epoch, shuffle, file_index, data_index,
                   file_duplication_index, len, data, data_set, loads,
                   outcome, ret, hist, iters, started, exhausted, full,
                   vocab_length, titems, epochs_to_cache, data_cache,
                   cache_index, args, dl>>

\* the call with args, before any layout is computed
InitL ==
    /\ \E a \in LayoutArgs :
          /\ args = <<a>>
          /\ vocab_length = a.vocab_length
    /\ sample_sizes = <<>>
    /\ files = <<>> /\ fsize = <<>> /\ fdata = <<>>
    /\ batch_size = 1
    /\ duplication_factor = 1
    /\ start_data_at_epoch = 0
    /\ shuffle = FALSE
    /\ file_duplication_index = <<>>
    /\ Constructed
    /\ epochs_to_cache = 0
    /\ data_cache = <<>>
    /\ cache_index = 0
    /\ generated_ranges = <<>>
    /\ dl = UnderConstruction

NextL == DoLayout

SpecL == InitL /\ [][NextL]_vars

\* ============================================================== claims
\* a file is well formed: its size is a whole number of records
WellFormed(f) == fsize[f] % (sample_size * itemsize) = 0

\* the rows one copy of file f holds
RowsPerCopy(f) == (fsize[f] \div (sample_size * itemsize)) \div duplication_factor

RECURSIVE RowsAhead(_)
\* the rows of the files at (0-based) positions i, i + 1, ... of the file list
RowsAhead(i) ==
    IF i >= Len(files) THEN 0 ELSE RowsPerCopy(files[i + 1]) + RowsAhead(i + 1)

\* the unread rows of the staging buffer plus those of the files not yet loaded
RowsRemaining == (Len(data) - data_index) + RowsAhead(file_index)

AllAheadWellFormed ==
    \A i \in (file_index + 1)..Len(files) : WellFormed(files[i])

\* a step of the driving loop that called __next__
NextStep == op' = "next"

\* C1: every batch __next__ returns has exactly batch_size rows in every
\* field, and when fewer than batch_size rows remain in the staging buffer
\* and the files not yet loaded, __next__ raises StopIteration and returns
\* no batch.
C1_FullBatchOrStop ==
    [][NextStep =>
         /\ outcome' = "ok" =>
              /\ Len(ret') = Len(sample_sizes)
              /\ \A i \in 1..Len(ret') : Len(ret'[i]) = batch_size
         /\ (data_set /\ AllAheadWellFormed /\ RowsRemaining < batch_size) =>
              /\ outcome' = "StopIteration"
              /\ ret' = <<>>
              /\ hist' = hist]_vars

\* C1 witness: an iteration over two files that returned a batch and then
\* ended with unread rows left in the buffer
C1_Witness ==
    /\ op = "next" /\ outcome = "StopIteration"
    /\ Len(files) = 2 /\ hist # <<>>
    /\ data_index < Len(data)

\* the copy every load of the current iteration must read when every
\* iteration so far was driven to StopIteration
EpochCopy ==
    (start_data_at_epoch + iters + 2 * duplication_factor - 1) % duplication_factor

\* C2: when every iteration is driven to StopIteration, the e-th iteration
\* (e = 0, 1, ...) loads copy (start_data_at_epoch + e) mod duplication_factor
\* of every file, each file exactly once; so duplication_factor consecutive
\* iterations load each copy of a file exactly once, in cyclic order.
C2_CyclicCopies ==
    (full /\ started) =>
        /\ \A k \in 1..Len(loads) : loads[k][2] = EpochCopy
        /\ \A j, k \in 1..Len(loads) : loads[j][1] = loads[k][1] => j = k
        /\ exhausted =>
             {loads[k][1] : k \in 1..Len(loads)} = {files[i] : i \in 1..Len(files)}

\* C2 witness: the second of two fully consumed iterations over two files
\* with two copies each, started at epoch 5, has read copy 0 of both
C2_Witness ==
    /\ full /\ exhausted /\ iters = 2
    /\ duplication_factor = 2 /\ start_data_at_epoch = 5
    /\ Len(loads) = 2 /\ loads[1][2] = 0 /\ loads[2][2] = 0
    /\ Len(hist) >= 1

\* the file the last load_file of this iteration read
LastLoaded == loads[Len(loads)][1]

\* the bytes of one record in all its copies
BytesPerDuplicatedSample == sample_size * itemsize * duplication_factor

\* C3 (as stated): once the sample counts of the files have been computed
\* without error, every file's size is a multiple of record width x element
\* size x duplication factor; no load truncates a file to
\* floor(records / duplication_factor) rows.
C3_Original ==
    /\ (op = "len" /\ outcome = "ok") =>
          \A i \in 1..Len(files) : fsize[files[i]] % BytesPerDuplicatedSample = 0
    /\ \A k \in 1..Len(loads) : fsize[loads[k][1]] % BytesPerDuplicatedSample = 0

\* C3 (amended): the sample count is refused exactly for the files whose
\* size is no multiple of record width x element size; a file that holds a
\* whole number of records is accepted whatever its record count, and a load
\* of it yields floor(records / duplication_factor) rows.
C3_Amended ==
    /\ op = "len" =>
          (outcome = "RuntimeError" <=>
              \E i \in 1..Len(files) : ~WellFormed(files[i]))
    /\ \A k \in 1..Len(loads) : WellFormed(loads[k][1])
    /\ loads # <<>> => Len(data) = RowsPerCopy(LastLoaded)

\* C3 witness: the length was computed and a file whose record count is no
\* multiple of the duplication factor was loaded, truncated
C3_Witness ==
    /\ op = "len" /\ outcome = "ok"
    /\ loads # <<>>
    /\ fsize[LastLoaded] % BytesPerDuplicatedSample # 0
    /\ Len(data) >= 1

\* C4: __len__ raises RuntimeError whenever some file is malformed (size no
\* multiple of record width x element size), and a load in __iter__ or
\* __next__ raises it at the first malformed file it reaches: no load gets
\* past a malformed file.
C4_FormatError ==
    /\ (op = "len" /\ \E i \in 1..Len(files) : ~WellFormed(files[i])) =>
          (outcome = "RuntimeError" /\ len = <<>> /\ ret = <<>>)
    /\ \A i \in 1..file_index : WellFormed(files[i])
    /\ (op \in {"iter", "next"} /\ outcome = "RuntimeError") =>
          (file_index < Len(files) /\ ~WellFormed(files[file_index + 1]))

\* C4 witness: the iteration has loaded the first file, the second one is
\* malformed, and __len__ raised
C4_Witness ==
    /\ op = "len" /\ outcome = "RuntimeError"
    /\ file_index = 1 /\ data_set /\ Len(files) = 2
    /\ ~WellFormed(files[2])

RECURSIVE JoinFields(_, _)
\* np.concatenate(items, axis=1) of row r: the fields of the row side by side
JoinFields(items, r) ==
    IF items = <<>> THEN <<>>
    ELSE items[1][r] \o JoinFields(Tail(items), r)

\* the rows of a batch, its fields joined again
Joined(items) == [r \in 1..Len(items[1]) |-> JoinFields(items, r)]

\* the first column (0-based) of field i and the column after its last
ColumnsBefore(i) == SumSeq(SubSeq(sample_sizes, 1, i - 1))
ColumnsThrough(i) == SumSeq(SubSeq(sample_sizes, 1, i))

\* every record of every file, as a row
AllRecords ==
    UNION {{[c \in 1..sample_size |-> fdata[f][k * sample_size + c]] :
              k \in 0..((Len(fdata[f]) \div sample_size) - 1)} :
           f \in DOMAIN fdata}

\* C5: a returned batch is one array per field, in declaration order; field
\* i is as wide as sample_sizes[i]; the fields joined side by side are whole
\* records, the last of them the rows just sliced from the staging buffer,
\* and field i is their columns [sum(widths[0..i-1]), sum(widths[0..i])).
C5_FieldSplit ==
    (op = "next" /\ outcome = "ok") =>
        /\ Len(ret) = Len(sample_sizes)
        /\ \A i \in 1..Len(ret) : \A r \in 1..Len(ret[i]) :
              /\ Len(ret[i][r]) = sample_sizes[i]
              /\ ret[i][r] = SubSeq(Joined(ret)[r], ColumnsBefore(i) + 1,
                                    ColumnsThrough(i))
        /\ \A r \in 1..batch_size : Joined(ret)[r] \in AllRecords
        /\ LET m == Min(batch_size, data_index)
           IN  SubSeq(Joined(ret), batch_size - m + 1, batch_size) =
                   SubSeq(data, data_index - m + 1, data_index)

\* C5 witness: a batch of two fields, the first two columns wide, whose rows
\* come from two files
C5_Witness ==
    /\ op = "next" /\ outcome = "ok"
    /\ sample_sizes = <<2, 1>>
    /\ batch_size >= 2 /\ data_index < batch_size
    /\ file_index = 2

\* the rows returned in the batches of this iteration
BatchRows ==
    {Joined(hist[j])[r] : <<j, r>> \in (1..Len(hist)) \X (1..batch_size)}

\* C6: an iteration returns at most len() batches; once it is exhausted the
\* unread rows of the last read are in none of its batches; StopIteration is
\* raised only with file_index >= len(files), and it is raised whenever
\* __next__ must load with file_index >= len(files) or __iter__ finds no file.
C6_DropRemainder ==
    /\ [](/\ len # <<>> => Len(hist) <= len[1]
          /\ exhausted =>
                \A r \in (data_index + 1)..Len(data) : data[r] \notin BatchRows
          /\ (op \in {"iter", "next"} /\ outcome = "StopIteration") =>
                file_index >= Len(files))
    /\ [][/\ (op' = "next" /\ data_set /\ file_index >= Len(files)
                /\ data_index + batch_size > Len(data)) =>
                outcome' = "StopIteration"
          /\ (op' = "iter" /\ Len(files) = 0) => outcome' = "StopIteration"]_vars

\* C6 witness: an exhausted iteration that returned len() batches and left
\* rows of the last read unreturned
C6_Witness ==
    /\ exhausted /\ op = "next"
    /\ len # <<>> /\ Len(hist) = len[1] /\ Len(hist) >= 1
    /\ data_index >= 1 /\ data_index < Len(data)

\* floor((sum over the files of floor(records / duplication_factor)) / batch_size)
ExpectedLen ==
    SumSeq([i \in 1..Len(files) |->
              (fsize[files[i]] \div (sample_size * itemsize))
                  \div duplication_factor]) \div batch_size

\* C7: the length is floor(sum over files of floor(file_records /
\* duplication_factor) / batch_size); once computed it is what self.len holds
\* ever after, and every later __len__ returns it, whatever __iter__ and
\* __next__ did in between.
C7_Length ==
    /\ len # <<>> => len = <<ExpectedLen>>
    /\ (op = "len" /\ outcome = "ok") => ret = len
    /\ (op = "len" /\ len # <<>>) => outcome = "ok"

\* C7 witness: __len__ returns 0 for two files of one record each with two
\* copies per file (the floor is taken per file), after an iteration ended
C7_Witness ==
    /\ op = "len" /\ outcome = "ok" /\ ret = <<0>>
    /\ duplication_factor = 2 /\ batch_size = 1
    /\ Len(files) = 2
    /\ \A i \in 1..2 : fsize[files[i]] = sample_size * itemsize
    /\ exhausted

\* C8: for a file of exactly k x record width x element size x
\* duplication_factor bytes samples_in_file does not raise and returns k, and
\* a load of the file yields k rows.
C8_SamplesInFile ==
    \A i \in 1..Len(files) : \A k \in 0..MaxRecords :
        fsize[files[i]] = k * sample_size * itemsize * duplication_factor =>
            /\ ~samples_in_file_raises(files[i])
            /\ samples_in_file(files[i]) = k
            /\ (loads # <<>> /\ LastLoaded = files[i]) => Len(data) = k

\* C8 witness: a file of 2 x record size x 2 bytes with two copies was
\* loaded as 2 rows
C8_Witness ==
    /\ loads # <<>> /\ duplication_factor = 2
    /\ fsize[LastLoaded] = 2 * sample_size * itemsize * 2
    /\ Len(data) = 2

\* the j-th batch of an iteration over the single file f read in order
ExpectedBatch(f, j) ==
    [i \in 1..Len(sample_sizes) |->
        [r \in 1..batch_size |->
            [c \in 1..sample_sizes[i] |->
                Content(f, ((j - 1) * batch_size + r - 1) * sample_size
                              + ColumnsBefore(i) + c - 1)]]]

\* C9: without shuffling and duplication, every iteration over a single
\* file returns the same batches: the j-th batch is rows (j-1) x batch_size
\* ... j x batch_size - 1 of the file, whatever was iterated before, and a
\* fully consumed iteration returns floor(records / batch_size) of them.
C9_Deterministic ==
    (~shuffle /\ duplication_factor = 1 /\ Len(files) = 1) =>
        /\ \A j \in 1..Len(hist) : hist[j] = ExpectedBatch(files[1], j)
        /\ (exhausted /\ WellFormed(files[1])) =>
              Len(hist) = RowsPerCopy(files[1]) \div batch_size

\* C9 witness: a second fully consumed iteration over one file has returned
\* two batches
C9_Witness ==
    /\ ~shuffle /\ duplication_factor = 1 /\ Len(files) = 1
    /\ started /\ iters = 0 /\ full /\ exhausted
    /\ Len(hist) = 2

\* the transform's output at field i (1-based), row r, column c
Out(i, r, c) == titems[i].a[r][c]

\* C10: in every batch the transform returns, a position of the first field
\* where the loader's value is >= vocab_length holds 100, a position of the
\* sixth field where it is >= vocab_length holds 0, and every field is uint32.
C10_VocabClamp ==
    (op = "next" /\ outcome = "ok") =>
        /\ Len(titems) = Len(ret)
        /\ \A i \in 1..Len(titems) : titems[i].dtype = "uint32"
        /\ \A r \in 1..batch_size :
              /\ \A c \in 1..sample_sizes[1] :
                    ret[1][r][c] >= vocab_length => Out(1, r, c) = <<0, 100>>
              /\ \A c \in 1..sample_sizes[6] :
                    ret[6][r][c] >= vocab_length => Out(6, r, c) = <<0, 0>>

\* C10 witness: a batch with an out-of-vocabulary id in the first field and
\* one in the sixth
C10_Witness ==
    /\ op = "next" /\ outcome = "ok"
    /\ batch_size >= 2
    /\ \E r \in 1..batch_size :
          ret[1][r][1] >= vocab_length /\ ret[1][r][1] # 100
    /\ \E r \in 1..batch_size :
          ret[6][r][sample_sizes[6]] >= vocab_length

\* the position of the buffer the next __iter__ of the cached loader serves
NextBuffer == IF cache_index >= Len(data_cache) THEN 1 ELSE cache_index + 1

\* C11: __next__ of the cached loader never reads across cached buffers: a
\* batch is batch_size consecutive rows of the current buffer; with fewer
\* than batch_size unread rows it raises StopIteration at once, also when
\* further cached epochs remain, and changes nothing.  cache_index is moved
\* by __iter__ alone, which serves the buffer that follows the current one
\* (the first one once the last has been served) and no other.
C11_NoCrossBuffer ==
    [][/\ (op' = "next" /\ data_set /\ data_index + batch_size > Len(data)) =>
            /\ outcome' = "StopIteration"
            /\ data_index' = data_index
       /\ (op' = "next" /\ outcome' = "ok") =>
            /\ Joined(ret') = SubSeq(data, data_index + 1, data_index + batch_size)
            /\ data_index' = data_index + batch_size
       /\ op' \in {"next", "len"} =>
            /\ cache_index' = cache_index
            /\ data_cache' = data_cache
            /\ data' = data
       /\ (op' = "iter" /\ outcome' = "ok") =>
            /\ cache_index' = NextBuffer
            /\ cache_index' \in 1..Len(data_cache')
            /\ data' = data_cache'[cache_index']
            /\ data_index' = 0]_vars

\* C11 witness: __next__ raised StopIteration after a batch, with unread rows
\* left in the buffer and a further cached epoch not yet served
C11_Witness ==
    /\ dl = "CachedDataLoader"
    /\ op = "next" /\ outcome = "StopIteration"
    /\ Len(hist) >= 1
    /\ data_index < Len(data)
    /\ cache_index < Len(data_cache)
    /\ Len(data_cache[cache_index + 1]) >= batch_size

\* the cache position has passed the last cached buffer
CacheExhausted == cache_index >= Len(data_cache)

\* the condition under which load_data fills the cache again
RefillDue == CacheExhausted /\ (shuffle \/ duplication_factor > 1)

\* C12: an __iter__ of the cached loader reads files (every file once per
\* cached epoch) if and only if the cache position has passed the last
\* buffer and shuffle is set or duplication_factor > 1; otherwise no file is
\* read, the buffers and the duplication cursors stay as they are, and an
\* exhausted cache is served again from its first buffer.
C12_RefillCondition ==
    [][op' = "iter" =>
         /\ (loads' # <<>>) <=> RefillDue
         /\ RefillDue => Len(loads') = epochs_to_cache * Len(files)
         /\ ~RefillDue =>
              /\ data_cache' = data_cache
              /\ file_duplication_index' = file_duplication_index
         /\ (CacheExhausted /\ ~RefillDue) =>
              /\ cache_index' = 1
              /\ data' = data_cache[1]]_vars

\* C12 witness: a later __iter__ of a loader that caches one epoch, without
\* shuffle and duplication, served the only buffer again and read no file
C12_Witness ==
    /\ dl = "CachedDataLoader"
    /\ op = "iter" /\ outcome = "ok"
    /\ ~shuffle /\ duplication_factor = 1 /\ epochs_to_cache = 1
    /\ started /\ iters = 0
    /\ loads = <<>>
    /\ cache_index = 1 /\ Len(data) >= 2

\* a later __iter__ that found the cache exhausted and filled it again
CacheRefilled ==
    /\ dl = "CachedDataLoader"
    /\ op = "iter" /\ outcome = "ok"
    /\ ~shuffle /\ duplication_factor = 2 /\ epochs_to_cache = 2
    /\ started /\ iters = 3
    /\ Len(loads) = 2 * Len(files) /\ Len(files) = 2
    /\ cache_index = 1

\* the records of file f as rows, in the order they are stored
FileRows(f) ==
    [k \in 1..(fsize[f] \div (sample_size * itemsize)) |->
        [c \in 1..sample_size |-> fdata[f][(k - 1) * sample_size + c]]]

RECURSIVE ConcatFiles(_)
\* the rows of the files of the list fs, one file after the other
ConcatFiles(fs) ==
    IF fs = <<>> THEN <<>> ELSE FileRows(fs[1]) \o ConcatFiles(Tail(fs))

\* C13: a cached loader built with epochs_to_cache = 2, shuffle = False and
\* duplication_factor = 1 holds two buffers that are equal row for row, each
\* the rows of every file in file-list order.
C13_EqualBuffers ==
    (dl = "CachedDataLoader" /\ epochs_to_cache = 2 /\ ~shuffle
        /\ duplication_factor = 1) =>
        /\ Len(data_cache) = 2
        /\ data_cache[1] = data_cache[2]
        /\ data_cache[1] = ConcatFiles(files)

\* C13 witness: such a loader over two files, the first of two records, has
\* served its second buffer
C13_Witness ==
    /\ dl = "CachedDataLoader" /\ epochs_to_cache = 2 /\ ~shuffle
    /\ duplication_factor = 1
    /\ Len(files) = 2
    /\ Len(FileRows(files[1])) = 2 /\ Len(FileRows(files[2])) >= 1
    /\ Len(data_cache[2]) >= 3
    /\ op = "iter" /\ cache_index = 2

\* C14: with epochs_to_cache < 1 the construction of the cached loader raises
\* RuntimeError and yields no loader; no file has been loaded, the cache is
\* empty and every duplication cursor is where BinaryDataLoader.__init__ put
\* it.
C14_EpochsToCacheError ==
    epochs_to_cache < 1 =>
        /\ dl \in {UnderConstruction, NoLoader}
        /\ dl = NoLoader => outcome = "RuntimeError"
        /\ loads = <<>>
        /\ data_cache = <<>>
        /\ \A i \in 1..Len(files) :
              file_duplication_index[i] =
                  start_data_at_epoch % duplication_factor
        /\ file_index = 0

\* C14 witness: the construction with epochs_to_cache < 1 over two files of
\* whole records has raised
C14_Witness ==
    /\ epochs_to_cache < 1
    /\ dl = NoLoader /\ outcome = "RuntimeError"
    /\ Len(files) = 2
    /\ \A i \in 1..2 : WellFormed(files[i]) /\ RowsPerCopy(files[i]) >= 1

\* C15: all buffers of a cached loader have the same number of rows, the
\* cache is never empty, and self.len is that number divided by batch_size,
\* floored: the number of batches every iteration returns before it raises
\* StopIteration, whichever buffer it serves and however often the cache
\* was filled.
C15_EqualLength ==
    dl = "CachedDataLoader" =>
        /\ Len(data_cache) >= 1
        /\ \A k \in 1..Len(data_cache) :
              /\ Len(data_cache[k]) = Len(data_cache[1])
              /\ len = <<Len(data_cache[k]) \div batch_size>>
        /\ data_set => Len(data) = Len(data_cache[1])
        /\ Len(hist) <= len[1]
        /\ exhausted => Len(hist) = len[1]

\* C15 witness: an iteration that was served from a refilled cache (the loads
\* of the fill are on record) has returned len() >= 1 batches and is
\* exhausted
C15_Witness ==
    /\ dl = "CachedDataLoader"
    /\ duplication_factor = 2 /\ epochs_to_cache = 2
    /\ started /\ iters = 3
    /\ loads # <<>>
    /\ op = "next" /\ exhausted
    /\ Len(hist) = len[1] /\ len[1] >= 1
    /\ Len(files) = 2

\* ---- the streaming loader over the same files, run as a function.  Without
\* shuffle every step of BinaryDataLoader has one outcome.
\* a BinaryDataLoader as its __init__ leaves it
StreamNew ==
    [files |-> files, file_index |-> 0, data_index |-> 0,
     dup |-> [i \in 1..Len(files) |-> start_data_at_epoch % duplication_factor],
     data |-> <<>>, data_set |-> FALSE, loads |-> <<>>]

RECURSIVE StreamDrain(_, _)
\* __next__ called until it raises: the state it leaves and the batches
\* it returned after those of acc
StreamDrain(s, acc) ==
    LET g == CHOOSE g \in get_data(s, batch_size) : TRUE
    IN  IF g.res = "ok"
        THEN StreamDrain(g.s, Append(acc, split_items(g.rows)))
        ELSE [s |-> g.s, batches |-> acc, res |-> g.res]

\* __iter__ followed by __next__ until it raises
StreamIteration(s) ==
    LET l == CHOOSE l \in load_data([s EXCEPT !.file_index = 0,
                                              !.data_index = 0,
                                              !.loads = <<>>]) : TRUE
    IN  IF l.res # "ok"
        THEN [s |-> l.s, batches |-> <<>>, res |-> l.res]
        ELSE StreamDrain(l.s, <<>>)

RECURSIVE StreamAfter(_)
\* the streaming loader after n fully consumed iterations
StreamAfter(n) ==
    IF n = 0 THEN StreamNew ELSE StreamIteration(StreamAfter(n - 1)).s

\* the batches of the n-th fully consumed iteration of the streaming loader
StreamBatches(n) == StreamIteration(StreamAfter(n - 1)).batches

\* the number of the current iteration (iters counts modulo
\* 2 * duplication_factor, and the copies the streaming loader reads recur
\* every duplication_factor iterations)
IterationNumber == IF iters = 0 THEN 2 * duplication_factor ELSE iters

\* C16: without shuffle, a cached loader reports the length the streaming
\* loader computes for the same files, and the batches of its n-th iteration
\* are, one by one, those of the n-th fully consumed iteration of the
\* streaming loader: what it has returned so far is a prefix of them, and
\* all of them once it has raised StopIteration.
C16_CachedEqualsStreaming ==
    (dl = "CachedDataLoader" /\ ~shuffle) =>
        /\ len = <<len_value>>
        /\ started =>
              LET sb == StreamBatches(IterationNumber)
              IN  /\ Len(hist) <= Len(sb)
                  /\ hist = SubSeq(sb, 1, Len(hist))
                  /\ exhausted => hist = sb

\* C16 witness: the second iteration of a cached loader over two files of
\* two copies each, served from a refilled cache, has returned the two
\* batches of the streaming loader's second iteration, which are not those of
\* its first
C16_Witness ==
    /\ dl = "CachedDataLoader" /\ ~shuffle
    /\ duplication_factor = 2 /\ epochs_to_cache = 1
    /\ Len(files) = 2
    /\ started /\ iters = 2 /\ exhausted
    /\ Len(hist) = 2
    /\ hist = StreamBatches(2)
    /\ hist # StreamBatches(1)

\* the batch items is one block per field, of batch_size rows and the
\* field's width, whose values are below the field's upper bound
InRange(items) ==
    /\ Len(items) = Len(sample_sizes)
    /\ \A i \in 1..Len(items) :
          /\ Len(items[i]) = batch_size
          /\ \A r \in 1..Len(items[i]) :
                /\ Len(items[i][r]) = sample_sizes[i]
                /\ \A c \in 1..Len(items[i][r]) :
                      /\ items[i][r][c] >= 0
                      /\ items[i][r][c] < generated_ranges[1][i]

\* C17: every batch the generated loader returns has one block per field, of
\* shape (batch_size, sample_sizes[i]), and every value of block i is in
\* [0, generated_ranges[i]).
C17_GeneratedInRange ==
    dl = "GeneratedDataLoader" =>
        /\ (op = "next" /\ outcome = "ok") => InRange(ret)
        /\ \A j \in 1..Len(hist) : InRange(hist[j])

\* C17 witness: a batch of two rows and two fields, the first two wide with
\* upper bound 2 and holding both 0 and 1, the second with upper bound 1
C17_Witness ==
    /\ dl = "GeneratedDataLoader"
    /\ op = "next" /\ outcome = "ok"
    /\ sample_sizes = <<2, 1>> /\ batch_size = 2
    /\ generated_ranges = <<(<<2, 1>>)>>
    /\ ret[1][1] = <<0, 1>> /\ ret[1][2] = <<1, 1>>
    /\ ret[2] = <<(<<0>>), (<<0>>)>>

\* C18: the generated loader returns a batch while fewer than len() have been
\* returned since the last __iter__ (or the construction), and raises
\* StopIteration on every __next__ from then on, whatever the files are;
\* __iter__ starts the count again.
C18_GeneratedLength ==
    /\ [](dl = "GeneratedDataLoader" =>
            /\ Len(hist) <= len[1]
            /\ exhausted => Len(hist) = len[1]
            /\ loads = <<>>)
    /\ [][/\ (op' = "next" /\ Len(hist) < len[1]) =>
               (outcome' = "ok" /\ Len(hist') = Len(hist) + 1)
          /\ (op' = "next" /\ Len(hist) >= len[1]) =>
               (outcome' = "StopIteration" /\ hist' = hist)
          /\ op' = "iter" => (outcome' = "ok" /\ hist' = <<>>)
          /\ op' = "len" => (ret' = len /\ hist' = hist)]_vars

\* C18 witness: over a file set with a malformed file, a later iteration of a
\* loader of length 2 has returned two batches and raised StopIteration twice
C18_Witness ==
    /\ dl = "GeneratedDataLoader"
    /\ len = <<2>>
    /\ \E i \in 1..Len(files) : ~WellFormed(files[i])
    /\ started /\ iters = 0 /\ full
    /\ op = "next" /\ outcome = "StopIteration" /\ exhausted
    /\ Len(hist) = 2

\* get_bert_dataset has been called and has ended
Assembled == args # <<>> /\ op = "get_bert_dataset"

\* generated_data or synthetic_data is set
GenerationFlag == args[1].generated_data \/ args[1].synthetic_data

\* C19: get_bert_dataset called with no input file and neither generated_data
\* nor synthetic_data raises ValueError and has constructed no loader (no
\* length, no ranges and no cache were set, nothing is returned); and a
\* GeneratedDataLoader constructed without generated_ranges raises
\* RuntimeError, so that every such loader has its ranges.
C19_ConfigurationErrors ==
    /\ (Assembled /\ ~GenerationFlag /\ Len(args[1].input_files) = 0) =>
          /\ outcome = "ValueError"
          /\ dl = NoLoader
          /\ len = <<>> /\ generated_ranges = <<>> /\ data_cache = <<>>
          /\ ret = <<>>
    /\ (args = <<>> /\ dl # UnderConstruction /\ generated_ranges = <<>>) =>
          (dl = NoLoader /\ outcome = "RuntimeError")
    /\ dl = "GeneratedDataLoader" => generated_ranges # <<>>

\* C19 witness: get_bert_dataset has raised for a configuration without input
\* files and generation flags that asks for a cached, sharded loader
C19_Witness ==
    /\ Assembled /\ ~GenerationFlag /\ Len(args[1].input_files) = 0
    /\ args[1].epochs_to_cache = 1 /\ args[1].use_popdist
    /\ outcome = "ValueError" /\ dl = NoLoader

\* the GeneratedDataLoader constructed without ranges has raised
RangesMissingReached ==
    /\ args = <<>> /\ generated_ranges = <<>>
    /\ dl = NoLoader /\ outcome = "RuntimeError"

\* every input file has the ending of the other file format
AllTfRecord ==
    /\ Len(args[1].input_files) > 0
    /\ \A i \in 1..Len(args[1].input_files) :
          args[1].input_files[i] \in {"tfrecord", "TFRecord"}

\* the first input file has the ending of the other file format, in any case
FirstTfRecord ==
    /\ Len(args[1].input_files) > 0
    /\ args[1].input_files[1] \in {"tfrecord", "TFRecord"}

\* C20 (as stated): with use_packed_sequence_format and input files of the
\* other file format, get_bert_dataset raises RuntimeError whatever the other
\* flags are.
C20_Original ==
    (Assembled /\ args[1].use_packed_sequence_format /\ AllTfRecord) =>
        (outcome = "RuntimeError" /\ dl = NoLoader)

\* C20 (amended): with use_packed_sequence_format, a first input file of the
\* other file format, and neither generated_data nor synthetic_data set,
\* get_bert_dataset raises RuntimeError and constructs no loader, whatever
\* epochs_to_cache, use_popdist, the batch size and the other files are.
C20_Amended ==
    (Assembled /\ args[1].use_packed_sequence_format /\ FirstTfRecord
        /\ ~GenerationFlag) =>
        /\ outcome = "RuntimeError"
        /\ dl = NoLoader
        /\ len = <<>> /\ data_cache = <<>> /\ loads = <<>> /\ ret = <<>>

\* C20 witness: the packed layout with input files <<TFRecord, bin>>, no
\* generation flag, a cache and a sampler asked for: RuntimeError
C20_Witness ==
    /\ Assembled /\ args[1].use_packed_sequence_format
    /\ args[1].input_files = <<"TFRecord", "bin">>
    /\ ~GenerationFlag
    /\ args[1].epochs_to_cache = 1 /\ args[1].use_popdist
    /\ outcome = "RuntimeError" /\ dl = NoLoader

\* C21: get_bert_dataset raises ValueError and returns no dataset whenever the
\* composed loader reports a length of zero, and returns a dataset only of a
\* length of one or more: whatever it returns has len >= 1; without the
\* sampler the returned length is the loader's, and a constructed loader of
\* length zero gives ValueError with nothing returned and no loader kept; a
\* call that raised returned nothing.
C21_EmptyDatasetError ==
    Assembled =>
        /\ ret # <<>> <=> outcome = "ok"
        /\ ret # <<>> => ret[1].len >= 1
        /\ (ret # <<>> /\ ~args[1].use_popdist) =>
              (len # <<>> /\ ret[1].len = len[1])
        /\ (ret # <<>> /\ args[1].use_popdist) =>
              (len # <<>> /\ ret[1].len <= len[1])
        /\ (len # <<>> /\ len[1] = 0) =>
              (outcome = "ValueError" /\ ret = <<>> /\ dl = NoLoader)
        /\ (len # <<>> /\ len[1] >= 1 /\ ~args[1].use_popdist) =>
              outcome = "ok"
        /\ (len # <<>> /\ outcome # "ok") => outcome = "ValueError"

\* C21 witness: a CachedDataLoader was constructed over two files whose one
\* cached epoch holds fewer rows than a batch, so its length is zero and
\* get_bert_dataset raised ValueError
C21_Witness ==
    /\ Assembled /\ ~GenerationFlag /\ ~args[1].use_popdist
    /\ Len(args[1].input_files) = 2 /\ args[1].epochs_to_cache = 1
    /\ data_cache # <<>> /\ Len(data_cache[1]) = 1 /\ batch_size = 2
    /\ len = <<0>>
    /\ outcome = "ValueError" /\ dl = NoLoader /\ ret = <<>>

\* the loader class the configuration selects
SelectedLoader ==
    IF GenerationFlag THEN "GeneratedDataLoader"
    ELSE IF FirstTfRecord THEN "PretrainingTfRecordDataLoader"
    ELSE IF args[1].epochs_to_cache > 0 THEN "CachedDataLoader"
    ELSE "BinaryDataLoader"

\* C22: get_bert_dataset selects exactly one loader: the generated one when
\* generated_data or synthetic_data is set, else the one of the other file
\* format when the first input file has its ending, else the cached one when
\* epochs_to_cache > 0, else the streaming one; the sampler is wrapped around
\* it iff use_popdist, and BertDataTransform is applied on every returning
\* path.  Only the selected loader's constructor has run.
C22_LoaderSelection ==
    /\ (Assembled /\ outcome = "ok") =>
          /\ ret # <<>>
          /\ ret[1].loader = SelectedLoader
          /\ dl = SelectedLoader
          /\ ret[1].sampler = args[1].use_popdist
          /\ ret[1].transform = "BertDataTransform"
    /\ Assembled =>
          /\ generated_ranges # <<>> <=>
                (SelectedLoader = "GeneratedDataLoader")
          /\ data_cache # <<>> =>
                (SelectedLoader = "CachedDataLoader")
          /\ loads # <<>> => (SelectedLoader = "CachedDataLoader")

\* C22 witness: with two input files bin, TFRecord, no generation flag and
\* epochs_to_cache = 1 the cached loader is returned, without the sampler
C22_Witness ==
    /\ Assembled /\ outcome = "ok" /\ ~GenerationFlag
    /\ args[1].input_files = <<"bin", "TFRecord">>
    /\ args[1].epochs_to_cache = 1 /\ ~args[1].use_popdist
    /\ ret # <<>> /\ ret[1].loader = "CachedDataLoader"
    /\ ~ret[1].sampler /\ ret[1].transform = "BertDataTransform"
    /\ data_cache # <<>>

\* C23: the unpacked layout is the 7 widths [S, S, S, 1, 1, M, 1] and the
\* packed layout the 10 widths [S, S, S, S, M+P, M+P, M+P, P, P, P]; the
\* ranges of a layout are as many as its widths; for S = 20, M = 2 the
\* unpacked widths are [20, 20, 20, 1, 1, 2, 1], 65 elements a record.
C23_Layouts ==
    op = "layout" =>
        LET S == args[1].sequence_length
            M == args[1].mask_tokens
            P == args[1].max_sequences_per_pack
            packed == args[1].use_packed_sequence_format
        IN  /\ ~packed =>
                  /\ Len(sample_sizes) = 7
                  /\ sample_sizes = <<S, S, S, 1, 1, M, 1>>
                  /\ SumSeq(sample_sizes) = 3 * S + M + 3
            /\ packed =>
                  /\ Len(sample_sizes) = 10
                  /\ sample_sizes =
                        <<S, S, S, S, M + P, M + P, M + P, P, P, P>>
            /\ Len(generated_ranges[1]) = Len(sample_sizes)
            /\ (~packed /\ S = 20 /\ M = 2) =>
                  /\ sample_sizes = <<20, 20, 20, 1, 1, 2, 1>>
                  /\ SumSeq(sample_sizes) = 65

\* C23 witness: the unpacked layout was computed for sequence_length 20 and
\* mask_tokens 2
C23_Witness ==
    /\ op = "layout" /\ ~args[1].use_packed_sequence_format
    /\ args[1].sequence_length = 20 /\ args[1].mask_tokens = 2
    /\ Len(sample_sizes) = 7 /\ SumSeq(sample_sizes) = 65
    /\ Len(generated_ranges[1]) = 7

\* the loads a step adds to the log (__iter__ starts the log afresh)
NewLoads ==
    IF op' = "iter" THEN loads'
    ELSE SubSeq(loads', Len(loads) + 1, Len(loads'))

\* the duplication cursor of file f where fs is the file list and dup the
\* cursor array
CursorOf(fs, dup, f) == dup[CHOOSE i \in 1..Len(fs) : fs[i] = f]

\* C24: the duplication cursor belongs to a file, not to a list position:
\* over any calls of __iter__ and __next__ the cursor of a file changes only
\* when that file is loaded, and a load of the file reads the copy its
\* cursor names and moves the cursor on by one modulo duplication_factor (so
\* that, the cursors starting at start_data_at_epoch mod duplication_factor,
\* the k-th load of a file reads copy (start_data_at_epoch + k) mod
\* duplication_factor).
C24_CursorPerFile ==
    [][\A i \in 1..Len(files) :
          LET f == files[i]
              before == CursorOf(files, file_duplication_index, f)
              after == CursorOf(files', file_duplication_index', f)
              loaded == \E k \in 1..Len(NewLoads) : NewLoads[k][1] = f
          IN  /\ ~loaded => after = before
              /\ loaded =>
                    /\ \E k \in 1..Len(NewLoads) : NewLoads[k] = <<f, before>>
                    /\ after = (before + 1) % duplication_factor]_vars

\* the same of loaders that do not shuffle, where a list position always
\* holds the same file
UnshuffledCursorPerFile ==
    [][~shuffle =>
       \A i \in 1..Len(files) :
          LET f == files[i]
              before == CursorOf(files, file_duplication_index, f)
              after == CursorOf(files', file_duplication_index', f)
              loaded == \E k \in 1..Len(NewLoads) : NewLoads[k][1] = f
          IN  /\ ~loaded => after = before
              /\ loaded =>
                    /\ \E k \in 1..Len(NewLoads) : NewLoads[k] = <<f, before>>
                    /\ after = (before + 1) % duplication_factor]_vars

\* the byte offset of copy c of file f
CopyOffset(f, c) == c * RowsPerCopy(f) * sample_size * itemsize

\* the rows of copy c of file f: RowsPerCopy(f) * sample_size elements from
\* the byte offset of the copy on, row by row
CopyRows(f, c) ==
    [r \in 1..RowsPerCopy(f) |->
        [col \in 1..sample_size |->
            fdata[f][(CopyOffset(f, c) \div itemsize)
                        + (r - 1) * sample_size + col]]]

\* buffer b holds the rows of rows, each once, in any order
SameRows(b, rows) ==
    /\ Len(b) = Len(rows)
    /\ \A r \in 1..Len(rows) : \E q \in 1..Len(b) : b[q] = rows[r]

\* the (0-based) file index the loads of a step start from
LoadBase == IF op' = "iter" THEN 0 ELSE file_index

\* the staging buffer is what the last load of the log read: the whole of
\* the copy the log names of the file it names, RowsPerCopy * sample_size
\* elements from the copy's byte offset on (in any row order when shuffling)
BufferIsLoadedCopy ==
    loads # <<>> =>
        LET last == loads[Len(loads)]
        IN  /\ Len(data) * sample_size * itemsize * duplication_factor
                  <= fsize[last[1]]
            /\ IF shuffle
               THEN SameRows(data, CopyRows(last[1], last[2]))
               ELSE data = CopyRows(last[1], last[2])

\* C25: a load of the file at list position i, whose cursor is c before the
\* load, reads exactly samples_in_file * sample_size elements from byte
\* offset c * samples_in_file * sample_size * itemsize; afterwards that cursor
\* is (c + 1) mod duplication_factor, the other cursors are as before, the
\* file index is one larger and the buffer row cursor counts from zero.
\* Stated of every step by the loads it makes, in order, from LoadBase on.
C25_LoadFile ==
    /\ []BufferIsLoadedCopy
    /\ [][NewLoads # <<>> =>
            LET m == Len(NewLoads)
            IN  /\ file_index' = LoadBase + m
                /\ \A k \in 1..m :
                      /\ NewLoads[k] = <<files'[LoadBase + k],
                                         file_duplication_index[LoadBase + k]>>
                      /\ file_duplication_index'[LoadBase + k] =
                            (file_duplication_index[LoadBase + k] + 1)
                                % duplication_factor
                /\ \A i \in 1..Len(files) :
                      (i <= LoadBase \/ i > LoadBase + m) =>
                          file_duplication_index'[i] = file_duplication_index[i]
                /\ outcome' # "ok" => data_index' = 0
                /\ (outcome' = "ok" /\ op' = "iter") => data_index' = 0
                /\ (outcome' = "ok" /\ op' = "next" /\ m = 1) =>
                      data_index' = batch_size - (Len(data) - data_index)]_vars

\* C25 witness: __next__ has loaded the second copy of the second file of the
\* list, of more than one row
C25_Witness ==
    /\ op = "next" /\ outcome = "ok" /\ ~shuffle
    /\ duplication_factor = 2 /\ file_index = 2 /\ Len(loads) = 2
    /\ loads[2] = <<files[2], 1>>
    /\ Len(data) >= 2 /\ data = CopyRows(files[2], 1)
    /\ CopyOffset(files[2], 1) = Len(data) * sample_size * itemsize
    /\ file_duplication_index[2] = 0

\* C26: __iter__ of the streaming loader, from any prior state, resets
\* file_index and data_index and loads the first file of the (possibly
\* reshuffled) list: on return file_index is 1, data_index is 0 and the
\* staging buffer holds the copy of files[0] its cursor named, the cursor
\* having moved on by one; the list is a reordering of the files given at
\* construction; with an empty list it raises StopIteration.  (A first file
\* that is not a whole number of records raises RuntimeError.)
C26_StartIteration ==
    op = "iter" =>
        /\ Len(files) = Len(fsize)
        /\ \A f \in 1..Len(fsize) : \E i \in 1..Len(files) : files[i] = f
        /\ ~shuffle => files = [i \in 1..Len(fsize) |-> i]
        /\ files = <<>> =>
              (outcome = "StopIteration" /\ loads = <<>> /\ file_index = 0)
        /\ (files # <<>> /\ WellFormed(files[1])) =>
              /\ outcome = "ok"
              /\ file_index = 1
              /\ data_index = 0
              /\ data_set
              /\ Len(loads) = 1 /\ loads[1][1] = files[1]
              /\ file_duplication_index[1] =
                    (loads[1][2] + 1) % duplication_factor
              /\ IF shuffle
                 THEN SameRows(data, CopyRows(files[1], loads[1][2]))
                 ELSE data = CopyRows(files[1], loads[1][2])
        /\ (files # <<>> /\ ~WellFormed(files[1])) =>
              (outcome = "RuntimeError" /\ loads = <<>> /\ file_index = 0)

\* C26 witness: __iter__ was called again while the second file of the
\* previous iteration was loaded and partly read, and has loaded the other
\* copy of the first file
C26_Witness ==
    /\ op = "iter" /\ outcome = "ok" /\ ~full /\ ~shuffle
    /\ Len(files) = 2 /\ duplication_factor = 2
    /\ file_index = 1 /\ data_index = 0
    /\ loads = <<<<files[1], 1>>>>
    /\ Len(data) >= 1 /\ data = CopyRows(files[1], 1)
    /\ file_duplication_index = <<0, 1>>

RECURSIVE ConcatCopies(_, _)
\* the rows of copy c of every file of the list fs, one file after the other
ConcatCopies(fs, c) ==
    IF fs = <<>> THEN <<>>
    ELSE CopyRows(fs[1], c) \o ConcatCopies(Tail(fs), c)

\* a step that filled the cache: the construction, or an __iter__ that
\* called load_cache
CacheFilled == op' \in {"init", "iter"} /\ loads' # <<>> /\ outcome' = "ok"

\* C27: load_cache with epochs_to_cache = e loads every file exactly once per
\* cached epoch, in list order from file 0 on; with c the common value of the
\* duplication cursors before the fill, the j-th buffer (j from 0) holds copy
\* (c + j) mod duplication_factor of every file, and after the fill every
\* cursor is (c + e) mod duplication_factor and file_index is 0.  The
\* construction over well-formed files, at least one, with e >= 1 is such a
\* fill.
C27_CacheFill ==
    [][/\ (dl = UnderConstruction /\ op' = "init" /\ epochs_to_cache >= 1
             /\ files # <<>> /\ \A i \in 1..Len(files) : WellFormed(files[i]))
          => CacheFilled
       /\ CacheFilled =>
            LET c == file_duplication_index[1]
                n == Len(files)
                e == epochs_to_cache
            IN  /\ \A i \in 1..n : file_duplication_index[i] = c
                /\ Len(loads') = e * n
                /\ Len(data_cache') = e
                /\ \A j \in 0..(e - 1) :
                      /\ \A i \in 1..n :
                            loads'[j * n + i] =
                               <<files'[i], (c + j) % duplication_factor>>
                      /\ IF shuffle
                         THEN SameRows(data_cache'[j + 1],
                                 ConcatCopies(files',
                                              (c + j) % duplication_factor))
                         ELSE data_cache'[j + 1] =
                                 ConcatCopies(files',
                                              (c + j) % duplication_factor)
                /\ \A i \in 1..n :
                      file_duplication_index'[i] =
                         (c + e) % duplication_factor
                /\ file_index' = 0]_vars

\* C27 witness: a loader of two cached epochs over two files with two copies
\* each was constructed from cursors at 1: the first buffer holds copy 1 and
\* the second copy 0 of the two files, and the cursors are at 1 again
C27_Witness ==
    /\ dl = "CachedDataLoader" /\ op = "init" /\ outcome = "ok"
    /\ ~shuffle /\ epochs_to_cache = 2 /\ duplication_factor = 2
    /\ Len(files) = 2
    /\ loads = <<<<files[1], 1>>, <<files[2], 1>>,
                 <<files[1], 0>>, <<files[2], 0>>>>
    /\ data_cache[1] = ConcatCopies(files, 1)
    /\ data_cache[2] = ConcatCopies(files, 0)
    /\ Len(data_cache[1]) >= 2 /\ data_cache[1] # data_cache[2]
    /\ file_duplication_index = <<1, 1>> /\ file_index = 0

\* C28: the duplication cursors and the file index are changed only by a file
\* load: __len__, and a __next__ the staging buffer can satisfy without a
\* load, leave the cursors, the file index, the file list and the staging
\* buffer as they are, and __next__ then moves data_index on by batch_size
\* and nothing else (__len__ moves nothing); a step that loads no file leaves
\* every cursor as it is and changes the file index only by the reset of
\* __iter__.
C28_LoadFrame ==
    [][/\ op' = "len" =>
            /\ UNCHANGED <<file_duplication_index, file_index, files, data,
                           data_index, loads>>
       /\ (op' = "next" /\ data_set /\ data_index + batch_size <= Len(data)) =>
            /\ outcome' = "ok"
            /\ UNCHANGED <<file_duplication_index, file_index, files, data,
                           loads>>
            /\ data_index' = data_index + batch_size
       /\ NewLoads = <<>> =>
            /\ file_duplication_index' = file_duplication_index
            /\ file_index' # file_index => (op' = "iter" /\ file_index' = 0)
       /\ op' # "iter" => files' = files]_vars

\* C28 witness: __next__ was satisfied from the buffer of the first file,
\* taking its last rows, while a second file is still to be loaded
C28_Witness ==
    /\ op = "next" /\ outcome = "ok"
    /\ Len(files) = 2 /\ file_index = 1 /\ Len(loads) = 1
    /\ Len(hist) >= 1
    /\ data_index = Len(data)
    /\ RowsPerCopy(files[2]) >= 1
    /\ duplication_factor = 2
    /\ file_duplication_index[1] # file_duplication_index[2]

\* C29: shuffling only permutes whole samples: with shuffle set, the staging
\* buffer of the streaming loader holds the rows of the file copy it was
\* loaded from, each once and each with its columns in the stored order; every
\* buffer of the cached loader holds in that way the rows of one copy of
\* every file, and the buffer being served is one of them; and the file list
\* is a reordering of the list given at construction.
C29_ShuffleWholeSamples ==
    /\ Len(files) = Len(fsize)
    /\ \A f \in 1..Len(fsize) : \E i \in 1..Len(files) : files[i] = f
    /\ (dl = "BinaryDataLoader" /\ loads # <<>>) =>
          SameRows(data, CopyRows(loads[Len(loads)][1], loads[Len(loads)][2]))
    /\ dl = "CachedDataLoader" =>
          /\ \A j \in 1..Len(data_cache) :
                \E c \in 0..(duplication_factor - 1) :
                   SameRows(data_cache[j], ConcatCopies(files, c))
          /\ (loads # <<>> /\ Len(loads) = Len(data_cache) * Len(files)) =>
                \A j \in 1..Len(data_cache) :
                   SameRows(data_cache[j],
                      ConcatCopies(files, loads[(j - 1) * Len(files) + 1][2]))
          /\ data_set => data = data_cache[cache_index]

\* C29 witness: the cached loader's buffer of two files of one three-column
\* record each holds the two records in the other order than the files
C29_Witness ==
    /\ dl = "CachedDataLoader" /\ shuffle /\ op = "iter"
    /\ sample_size = 3 /\ Len(files) = 2
    /\ Len(data_cache[1]) = 2
    /\ data_cache[1] # ConcatCopies(files, 0)
    /\ data_cache[1] = ConcatCopies(<<files[2], files[1]>>, 0)
    /\ data = data_cache[1]

RECURSIVE ConcatBatches(_)
\* the rows of the batches of h, one batch after the other
ConcatBatches(h) ==
    IF h = <<>> THEN <<>> ELSE Joined(h[1]) \o ConcatBatches(Tail(h))

\* the copy this iteration reads of the file at list position i: the one it
\* was loaded from, or the one its cursor names if it is still to be loaded
SelectedCopy(i) ==
    IF i <= Len(loads) THEN loads[i][2] ELSE file_duplication_index[i]

RECURSIVE SelectedRows(_)
\* the rows of the selected copies of the files at list positions i, i + 1,
\* ..., in list order
SelectedRows(i) ==
    IF i > Len(files) THEN <<>>
    ELSE CopyRows(files[i], SelectedCopy(i)) \o SelectedRows(i + 1)

\* without shuffle, the batches of the iteration so far are, row for row, the
\* beginning of the selected copies of the files in list order
BatchesArePrefix ==
    (~shuffle /\ started) =>
        LET all == ConcatBatches(hist)
            sel == SelectedRows(1)
        IN  /\ Len(all) = Len(hist) * batch_size
            /\ Len(all) <= Len(sel)
            /\ all = SubSeq(sel, 1, Len(all))

\* C30: a batch that spans a file boundary is the unread rows left in the old
\* buffer, in order, followed by the first rows of the newly loaded
\* buffer(s) (buffers loaded in between go into it whole); with shuffle =
\* False the batches of one iteration, one after the other, are a prefix of
\* the selected copies of the files in file-list order: no row is repeated
\* and none is skipped.
C30_BoundaryBatch ==
    /\ []BatchesArePrefix
    /\ [][(op' = "next" /\ outcome' = "ok" /\ NewLoads # <<>>) =>
            LET left == SubSeq(data, data_index + 1, Len(data))
                rows == Joined(ret')
                m    == Len(NewLoads)
                between == SumSeq([k \in 1..(m - 1) |->
                                      RowsPerCopy(NewLoads[k][1])])
            IN  /\ Len(rows) = batch_size
                /\ Len(left) < batch_size
                /\ SubSeq(rows, 1, Len(left)) = left
                /\ Len(left) + between + data_index' = batch_size
                /\ SubSeq(rows, batch_size - data_index' + 1, batch_size) =
                      SubSeq(data', 1, data_index')]_vars

\* C30 witness: the second batch of an iteration over a file of three rows
\* and a file of one is the third row of the first file followed by the row
\* of the second
C30_Witness ==
    /\ op = "next" /\ outcome = "ok" /\ ~shuffle
    /\ batch_size = 2 /\ duplication_factor = 1
    /\ Len(files) = 2 /\ file_index = 2 /\ data_index = 1
    /\ Len(hist) = 2
    /\ RowsPerCopy(files[1]) = 3
    /\ Joined(ret) = <<CopyRows(files[1], 0)[3], data[1]>>
    /\ ConcatBatches(hist) = SelectedRows(1)

\* C31: __iter__ and __next__ of the generated loader never read a file and
\* leave the file index, every duplication cursor and the file list as they
\* are (with shuffle set too); of the loader's state they change data_index
\* alone, the count of batches produced: __iter__ sets it to 0, a __next__
\* that returns a batch adds one, a __next__ that raises StopIteration
\* leaves it.
C31_GeneratedFrame ==
    [][(dl = "GeneratedDataLoader" /\ op' \in {"iter", "next"}) =>
          /\ loads' = <<>>
          /\ UNCHANGED <<files, file_index, file_duplication_index, data,
                         data_set, len, generated_ranges, data_cache,
                         cache_index>>
          /\ op' = "iter" => data_index' = 0
          /\ (op' = "next" /\ outcome' = "ok") => data_index' = data_index + 1
          /\ (op' = "next" /\ outcome' # "ok") =>
                (outcome' = "StopIteration" /\ data_index' = data_index)]_vars

\* C31 witness: a generated loader constructed with shuffle over two files
\* with two copies each has returned a batch in a later iteration; the file
\* list, the file index and the cursors are as constructed
C31_Witness ==
    /\ dl = "GeneratedDataLoader" /\ shuffle
    /\ op = "next" /\ outcome = "ok"
    /\ started /\ iters = 2 /\ data_index = 1
    /\ duplication_factor = 2
    /\ files = <<1, 2>> /\ file_index = 0
    /\ file_duplication_index = <<0, 0>>
    /\ loads = <<>> /\ ~data_set

\* every file of the list is a whole number of records
AllWellFormed == \A i \in 1..Len(files) : WellFormed(files[i])

\* an iteration of a file-backed loader can be driven: the cached loader was
\* constructed, or the streaming loader has files, all of them well formed
Drivable ==
    \/ dl = "CachedDataLoader"
    \/ dl = "BinaryDataLoader" /\ files # <<>> /\ AllWellFormed

\* what len() of the loader returns
LenValue == IF dl = "CachedDataLoader" THEN len[1] ELSE ExpectedLen

\* C32: from any __iter__ of the streaming loader (over files that are whole
\* numbers of records, batch_size >= 1) __next__ returns a batch while fewer
\* than len() batches have been returned and raises StopIteration at the
\* next call: the iteration ends after exactly len() batches, never fewer and
\* never more; the same holds of every iteration of the cached loader; over
\* an empty file list __iter__ itself raises StopIteration.
C32_ExactlyLenBatches ==
    /\ (Drivable /\ started) =>
          /\ Len(hist) <= LenValue
          /\ len # <<>> => len[1] = LenValue
          /\ exhausted => Len(hist) = LenValue
          /\ op = "next" =>
                /\ outcome \in {"ok", "StopIteration"}
                /\ outcome = "StopIteration" =>
                      (exhausted /\ Len(hist) = LenValue)
          /\ op = "iter" => (outcome = "ok" /\ hist = <<>> /\ ~exhausted)
    /\ (dl = "BinaryDataLoader" /\ files = <<>> /\ op = "iter") =>
          (outcome = "StopIteration" /\ hist = <<>>)

\* C32 witness: the second iteration of the streaming loader over a file of
\* one row and a file of two has returned its len() = 1 batch of two rows,
\* taken across the file boundary, left a row unread and raised StopIteration
C32_Witness ==
    /\ dl = "BinaryDataLoader" /\ Len(files) = 2 /\ AllWellFormed
    /\ op = "next" /\ outcome = "StopIteration" /\ exhausted
    /\ started /\ iters = 0 /\ full /\ duplication_factor = 1
    /\ len = <<1>> /\ Len(hist) = 1 /\ batch_size = 2
    /\ RowsPerCopy(files[1]) = 1 /\ RowsAhead(0) = 3
    /\ file_index = 2 /\ data_index = 1

\* C33: when every iteration of the streaming loader has been driven to
\* StopIteration, at every start of an iteration all duplication cursors
\* hold the same value, (start_data_at_epoch + the number of completed
\* iterations) mod duplication_factor; the cursors of the cached loader are
\* equal to one another in every state, however its iterations were driven.
C33_CursorsInLockstep ==
    /\ (dl = "BinaryDataLoader" /\ full /\ (~started \/ exhausted)) =>
          \A i \in 1..Len(files) :
             file_duplication_index[i] =
                (start_data_at_epoch + iters) % duplication_factor
    /\ dl = "CachedDataLoader" =>
          /\ Len(file_duplication_index) = Len(files)
          /\ \A i, j \in 1..Len(files) :
                file_duplication_index[i] = file_duplication_index[j]

\* C33 witness: the streaming loader over two files with two copies each,
\* started at epoch 5, has driven its first iteration to StopIteration; both
\* cursors are at (5 + 1) mod 2 = 0
C33_Witness ==
    /\ dl = "BinaryDataLoader" /\ full /\ exhausted
    /\ Len(files) = 2 /\ duplication_factor = 2 /\ start_data_at_epoch = 5
    /\ iters = 1 /\ Len(hist) >= 1
    /\ file_duplication_index = <<0, 0>>

\* a __next__ of the current iteration has raised StopIteration
NextExhausted == exhausted /\ data_set

\* C34: once __next__ has raised StopIteration, every further __next__ of the
\* loader, streaming or cached, raises it again and leaves the file index,
\* data_index, the duplication cursors and the cache position (and with them
\* the buffers and the file list) as they are, until __iter__ is called.
C34_ExhaustedStays ==
    [][(NextExhausted /\ op' = "next") =>
          /\ outcome' = "StopIteration"
          /\ ret' = <<>>
          /\ NextExhausted'
          /\ UNCHANGED <<file_index, data_index, file_duplication_index,
                         cache_index, data, data_cache, files, loads,
                         hist>>]_vars

\* C34 witness: the streaming loader has raised StopIteration on a further
\* __next__ as well (the buffer of the last file still holds an unread row)
C34_Witness ==
    /\ dl = "BinaryDataLoader" /\ exhausted /\ data_set
    /\ op = "next" /\ outcome = "StopIteration"
    /\ Len(files) = 2 /\ file_index = 2
    /\ Len(hist) >= 1 /\ data_index < Len(data)
    /\ Len(hist) < RowsAhead(0)

\* the uint32 word w is an id of the vocabulary
InVocab(w) == w[1] = 0 /\ w[2] < vocab_length

\* C35 (as stated): in every batch the transform returns, every value of the
\* first field and every value of the sixth field is less than vocab_length,
\* whatever vocab_length >= 1 and the loader's values are.
C35_Original ==
    (op = "next" /\ outcome = "ok" /\ vocab_length >= 1) =>
        \A r \in 1..batch_size :
           /\ \A c \in 1..sample_sizes[1] : InVocab(Out(1, r, c))
           /\ \A c \in 1..sample_sizes[6] : InVocab(Out(6, r, c))

\* C35 (amended): in every batch the transform returns, a value of the sixth
\* field that the loader gave as a non-negative number is less than
\* vocab_length for every vocab_length >= 1, and a value of the first field
\* that the loader gave as a non-negative number is less than vocab_length
\* for every vocab_length > 100, the id the first field is masked with.
C35_Amended ==
    (op = "next" /\ outcome = "ok" /\ vocab_length >= 1) =>
        \A r \in 1..batch_size :
           /\ \A c \in 1..sample_sizes[1] :
                 (ret[1][r][c] >= 0 /\ vocab_length > UNK) =>
                     InVocab(Out(1, r, c))
           /\ \A c \in 1..sample_sizes[6] :
                 ret[6][r][c] >= 0 => InVocab(Out(6, r, c))

\* C35 witness: with vocab_length 101 a batch whose first field held 200 and
\* whose sixth field held 101 came out with 100 and 0 in their places
C35_Witness ==
    /\ op = "next" /\ outcome = "ok" /\ vocab_length = 101
    /\ \E r \in 1..batch_size :
          /\ \E c \in 1..sample_sizes[1] :
                ret[1][r][c] = 200 /\ Out(1, r, c) = <<0, 100>>
          /\ \E c \in 1..sample_sizes[6] :
                ret[6][r][c] = 101 /\ Out(6, r, c) = <<0, 0>>

\* the number the 32 bits of the uint32 word w are as an int32
Signed(w) ==
    IF w[1] >= HalfWord \div 2
    THEN (w[1] - HalfWord) * HalfWord + w[2]
    ELSE w[1] * HalfWord + w[2]

\* the word w is what the transform makes of the value v of field i: the
\* masking id if v is an out-of-vocabulary value of the first or the sixth
\* field, else v itself
Clamped(i, v, w) ==
    IF i = 1 /\ v >= vocab_length THEN w = <<0, UNK>>
    ELSE IF i = 6 /\ v >= vocab_length THEN w = <<0, PAD>>
    ELSE Signed(w) = v

C37_FailedLoadFrame ==
    [][(op' \in {"iter", "next"} /\ outcome' = "RuntimeError") =>
          /\ file_index' < Len(files')
          /\ ~WellFormed(files'[file_index' + 1])
          /\ file_index' = LoadBase + Len(NewLoads)
          /\ file_duplication_index'[file_index' + 1] =
                file_duplication_index[file_index' + 1]
          /\ ret' = <<>> /\ hist' = IF op' = "iter" THEN <<>> ELSE hist
          /\ NewLoads = <<>> =>
                /\ data' = data /\ data_set' = data_set
                /\ file_duplication_index' = file_duplication_index
                /\ data_index' = IF op' = "iter" THEN 0 ELSE data_index
          /\ NewLoads # <<>> =>
                /\ data_index' = 0
                /\ \/ shuffle
                   \/ data' = CopyRows(NewLoads[Len(NewLoads)][1],
                                       NewLoads[Len(NewLoads)][2])]_vars

\* C37 witness: __next__ needed the second file, which is not a whole number
\* of records, and raised RuntimeError; the buffer of the first file, the
\* indices and the cursors are as before
C37_Witness ==
    /\ op = "next" /\ outcome = "RuntimeError" /\ ~shuffle
    /\ Len(files) = 2 /\ ~WellFormed(files[2])
    /\ file_index = 1 /\ Len(loads) = 1
    /\ Len(hist) >= 1 /\ data_index = 1 /\ Len(data) = 1
    /\ data = CopyRows(files[1], loads[1][2])
    /\ duplication_factor = 2
    /\ file_duplication_index[1] # file_duplication_index[2]

\* C38: in every state after the first __iter__ of a streaming or cached
\* loader: 0 <= data_index <= rows of the staging buffer, 0 <= file_index <=
\* number of files, and every duplication cursor is in 0 ..
\* duplication_factor - 1; for the cached loader also 1 <= cache_index <=
\* epochs_to_cache, and the cache holds exactly epochs_to_cache buffers.
C38_IndexBounds ==
    (started /\ dl \in {"BinaryDataLoader", "CachedDataLoader"}) =>
        /\ 0 <= data_index /\ data_index <= Len(data)
        /\ 0 <= file_index /\ file_index <= Len(files)
        /\ Len(file_duplication_index) = Len(files)
        /\ \A i \in 1..Len(files) :
              /\ 0 <= file_duplication_index[i]
              /\ file_duplication_index[i] < duplication_factor
        /\ dl = "CachedDataLoader" =>
              /\ 1 <= cache_index /\ cache_index <= epochs_to_cache
              /\ Len(data_cache) = epochs_to_cache

\* C38 witness: a cached loader of two cached epochs is serving its second
\* buffer in a later iteration and has read the buffer to its end
C38_Witness ==
    /\ dl = "CachedDataLoader" /\ started /\ epochs_to_cache = 2
    /\ cache_index = 2 /\ op = "next" /\ outcome = "ok"
    /\ data_index = Len(data) /\ Len(data) >= 2
    /\ duplication_factor = 2 /\ Len(files) = 2
    /\ file_duplication_index = <<1, 1>>

\* the loader about to load the file at (1-based) position i with cursor c
\* (load_file reads nothing else of the loader)
AboutToLoad(i, c) ==
    [files |-> files, file_index |-> i - 1,
     dup |-> [j \in 1..Len(files) |-> c]]

\* the read of load_file for position i and cursor c ends within the file
\* and yields samples_in_file rows
ReadWithinFile(i, c) ==
    LET s == AboutToLoad(i, c)
        f == files[i]
        n == Len(load_file_read(s))
    IN  /\ load_file_offset(s) + load_file_count(s) * itemsize <= fsize[f]
        /\ n = load_file_count(s)
        /\ n = samples_in_file(f) * sample_size

\* C39: for any file whose size is a multiple of record width x element size
\* and any cursor value in 0 .. duplication_factor - 1, byte offset +
\* record count x record width x element size <= file size, so a load
\* returns exactly samples_in_file rows: no read is short (no ValueError from
\* the reshape), and the buffer a load fills has samples_in_file rows.
C39_ReadsWithinFile ==
    /\ \A i \in 1..Len(files) : \A c \in 0..(duplication_factor - 1) :
          WellFormed(files[i]) => ReadWithinFile(i, c)
    /\ outcome # "ValueError"
    /\ loads # <<>> => Len(data) = samples_in_file(LastLoaded)

\* C39 witness: with duplication_factor 2, the second copy of a file of three
\* records has just been loaded: one row, ending one record short of the end
C39_Witness ==
    /\ op = "iter" /\ outcome = "ok" /\ duplication_factor = 2
    /\ Len(loads) = 1 /\ loads[1][2] = 1
    /\ fsize[LastLoaded] = 3 * bytes_per_sample
    /\ Len(data) = 1 /\ data = CopyRows(LastLoaded, 1)

====
